---- MODULE Spec2Model ----
(***************************************************************************)
(* Model of the Aerodrome vote/reward snapshot tools:                      *)
(*   - the snapshot comparator (compare_pools.py),                          *)
(*   - the valuation of one pool (main.py, parse_pool / write_csv),         *)
(*   - one pipeline run (main.py, iter_pools with its fetchers).            *)
(*   - the snapshot files over several runs (main.py, __main__), the        *)
(*     renaming tool (migrate_pool_names.py) and the discovery of           *)
(*     snapshots (find_latest_csvs, main of compare_pools.py,               *)
(*     _previous_snapshot of generate_pools_html.py),                       *)
(*   - the price file under the price tool (fetch_prices.py).               *)
(* Floats are held as exact rationals; text cells and addresses are held   *)
(* as strings and converted by finite tables.                               *)
(***************************************************************************)
EXTENDS Integers, Sequences, FiniteSets, TLC

VARIABLES
    \* ---- comparator (compare_pools.py)
    cmp_pc,        \* "start" before compare_vote_changes, "done" after it returned
    cur_csv,       \* rows of the current snapshot file
    prev_csv,      \* rows of the previous snapshot file
    top_n,         \* the top_n argument of the last call
    changes,       \* the list `changes` after the sort (untruncated)
    returned,      \* the value compare_vote_changes returned
    \* ---- pipeline run (main.py)
    pc,            \* position of the run
    total,         \* the pool count get_pool_count returned
    pools,         \* the list `pools` of iter_pools
    price_file,    \* token_prices.json on disk
    price_map,     \* the in-memory price map
    requested,     \* tokens sent to the price service so far
    weight_map,    \* the map _fetch_weights is building / has returned
    reward_map,    \* the map _fetch_rewards_map is building / has returned
    start,         \* `start` of the running chunk loop
    failed,        \* chunks whose transport failed
    rows,          \* the PoolRows iter_pools has yielded
    unpriced,      \* _UNPRICED_TOKENS
    csv_out,       \* the rows write_csv has written
    log,           \* the external steps of the run, in order
    price_io,      \* the reads and writes of token_prices.json, in order
    new_prices,    \* new_prices of the last call update_price_map(new_prices)
    responses,     \* `responses` of the running chunk of a fetch: position -> item
    calls,         \* the requests sent to the RPC endpoint, in order
    price_chunks,  \* the chunks fetch_prices has requested, in order
    \* ---- the working directory (main.py, migrate_pool_names.py)
    fs,            \* the CSV files of the directory: path -> file
    now,           \* the UTC clock, in seconds
    snapshot_path, \* snapshot_path of the run of __main__
    mtime,         \* the files of the directory in the order of their
                   \* st_mtime, oldest first (the code only sorts by st_mtime)
    lookup         \* the call of a discovery function on the directory as it
                   \* is, and what it returned; NoLookup after any other step

cmp_vars == <<cmp_pc, cur_csv, prev_csv, top_n, changes, returned>>

run_vars == <<pc, total, pools, price_file, price_map, requested, weight_map,
              reward_map, start, failed, rows, unpriced, csv_out, log, price_io,
              new_prices, responses, calls, price_chunks>>

file_vars == <<fs, now, snapshot_path, mtime, lookup>>

vars == <<cmp_vars, run_vars, file_vars>>

-----------------------------------------------------------------------------
(* Bounds *)

\* number of distinct pool addresses a snapshot may hold
NumAddrs == 2

\* largest pool count the chain reports
MaxPools == 3

\* batch_size of iter_pools (187 in the source)
BatchSize == 2

\* chunk_size of _fetch_weights (120 in the source)
WeightChunk == 2

\* chunk_size of _fetch_rewards_map (100 in the source)
RewardChunk == 2

\* chunk_size of fetch_prices (30 in the source)
PriceChunk == 2

\* width of an eth_call return word (256 in the source)
WordBits == 3

\* the decimals _token_decimals falls back to (18 in the source)
DefaultDecimals == 1

\* rows handed to write_csv when parse_pool is exercised on its own
MaxRows == 2

\* the last second of the UTC clock
MaxClock == 2

\* largest number of timestamped snapshots in the directory
MaxSnapshots == 2

\* largest number of runs of fetch_prices.py
MaxToolRuns == 2

\* the limit _previous_snapshot passes to find_latest_csvs (50 in the source)
HistoryLimit == 4

\* the decimals of a vote: votes = votes_raw / 1e18, scaled to 10^VoteDecimals
VoteDecimals == 1

-----------------------------------------------------------------------------
(* Text: addresses, names and numeric cells *)

\* pool addresses as they are written by the pipeline (checksummed, mixed case)
AddrUpper == <<"0xAA", "0xBB", "0xCC", "0xDD">>

\* the same addresses in lower case
AddrLower == <<"0xaa", "0xbb", "0xcc", "0xdd">>

\* token addresses, checksummed and lower case
TokenUpper == <<"0xUSDC", "0xWETH", "0xAERO", "0xBRIB">>
TokenLower == <<"0xusdc", "0xweth", "0xaero", "0xbrib">>

ZERO_ADDR == "0x0000"

CaseUpper == AddrUpper \o TokenUpper
CaseLower == AddrLower \o TokenLower

\* str.lower() on the strings of the model
Lower(s) ==
    IF \E i \in DOMAIN CaseUpper : CaseUpper[i] = s
    THEN CaseLower[CHOOSE i \in DOMAIN CaseUpper : CaseUpper[i] = s]
    ELSE s

\* Web3.to_checksum_address on the strings of the model
ToChecksum(s) ==
    IF \E i \in DOMAIN CaseLower : CaseLower[i] = s
    THEN CaseUpper[CHOOSE i \in DOMAIN CaseLower : CaseLower[i] = s]
    ELSE s

\* str.upper() on the names of the model
Upper(s) ==
    CASE s = "Total" -> "TOTAL"
      [] s = "total" -> "TOTAL"
      [] OTHER -> s

\* the texts a votes cell may hold: a negative number, a positive number, and
\* a blank (which float() rejects, so that the cell reads as 0.0)
VoteText == {"-1", "2", ""}

\* float(val) of _as_float: the parsed number, or 0.0 when float() raises
AsFloat(val) ==
    CASE val = "-1" -> -1
      [] val = "0" -> 0
      [] val = "1" -> 1
      [] val = "2" -> 2
      [] val = "3" -> 3
      [] val = "50" -> 50
      [] val = "100" -> 100
      [] val = "150" -> 150
      [] val = "200" -> 200
      [] OTHER -> 0

Abs(x) == IF x < 0 THEN -x ELSE x

RECURSIVE Gcd(_, _)
Gcd(a, b) == IF b = 0 THEN a ELSE Gcd(b, a % b)

\* an exact quotient num/den (den # 0) in lowest terms with a positive denominator
Quot(num, den) ==
    LET g == Gcd(Abs(num), Abs(den))
        s == IF den < 0 THEN -1 ELSE 1
    IN [defined |-> TRUE, num |-> (s * num) \div g, den |-> (s * den) \div g]

\* Python's None / math.nan for a ratio that is not defined
Undefined == [defined |-> FALSE, num |-> 0, den |-> 1]

\* the integer n as a quotient
Whole(n) == [defined |-> TRUE, num |-> n, den |-> 1]

-----------------------------------------------------------------------------
(* Snapshot files *)

\* one CSV row as csv.DictReader yields it (the columns the comparator reads)
CsvRow(name, address, votes) == [name |-> name, address |-> address, votes |-> votes]

\* the TOTAL row of write_csv: empty identity cells, no votes column value
TotalRow == CsvRow("TOTAL", "", "")

Absent == "absent"

\* address i in the casing of the file
AddrText(casing, i) == IF casing = "lower" THEN AddrLower[i] ELSE AddrUpper[i]

RECURSIVE PoolRows(_, _, _)
PoolRows(casing, cells, i) ==
    IF i > NumAddrs THEN <<>>
    ELSE (IF cells[i] = Absent THEN <<>>
          ELSE <<CsvRow("POOL", AddrText(casing, i), cells[i])>>)
         \o PoolRows(casing, cells, i + 1)

\* a snapshot as write_csv lays it out: pool lines, then TOTAL when there is a row
MkCsv(casing, cells) ==
    LET lines == PoolRows(casing, cells, 1)
    IN IF lines = <<>> THEN lines ELSE Append(lines, TotalRow)

\* the snapshots of one casing
SnapshotsIn(casing) ==
    {MkCsv(casing, cells) : cells \in [1..NumAddrs -> VoteText \cup {Absent}]}

\* snapshot files: as the pipeline writes them (checksummed addresses), and
\* with the addresses in lower case
Snapshots == SnapshotsIn("upper") \cup SnapshotsIn("lower")

\* two snapshots of three pools A, B, C: the older one has A = 100, B = 200,
\* C = 50 votes, the newer one has A = 150, B = 200 and no row for C
ScenarioPrevious ==
    <<CsvRow("A", AddrUpper[1], "100"), CsvRow("B", AddrUpper[2], "200"),
      CsvRow("C", AddrUpper[3], "50"), TotalRow>>

ScenarioCurrent ==
    <<CsvRow("A", AddrUpper[1], "150"), CsvRow("B", AddrUpper[2], "200"), TotalRow>>

-----------------------------------------------------------------------------
(* compare_pools.py *)

\* the entry _load_votes stores for one row
VoteEntry(row) ==
    [address |-> row.address,
     name |-> IF row.name = "" THEN row.address ELSE row.name,
     votes |-> AsFloat(row.votes)]

\* whether _load_votes skips the row (a TOTAL row, or a row without address)
SkipRow(row) == Upper(row.name) = "TOTAL" \/ row.address = ""

\* the key under which a row is kept taken as the address as written
VoteKey_Raw(address) == address

\* address.lower(), the key under which _load_votes keeps a row
VoteKey(address) == Lower(address)

RECURSIVE LoadVotesFrom(_, _)
LoadVotesFrom(lines, votes) ==
    IF lines = <<>> THEN votes
    ELSE LET row == Head(lines)
             key == VoteKey(row.address)
             next == IF SkipRow(row) THEN votes
                     ELSE [k \in DOMAIN votes \cup {key} |->
                             IF k = key THEN VoteEntry(row) ELSE votes[k]]
         IN LoadVotesFrom(Tail(lines), next)

\* _load_votes: the votes of a snapshot keyed by lower-cased address
LoadVotes(lines) == LoadVotesFrom(lines, [k \in {} |-> 0])

\* current.get(addr)["votes"], 0.0 when the address is not in the snapshot
VotesOr0(votes, addr) == IF addr \in DOMAIN votes THEN votes[addr].votes ELSE 0

\* mutant: the guard written as the design words it, `prev_votes > 0`
HasBaseline_Positive(prev_votes) == prev_votes > 0

\* the test `if prev_votes` that guards the division
HasBaseline(prev_votes) == prev_votes # 0

\* mutant: a missing baseline coerced to 0 instead of None
DeltaPct_ZeroWithoutBaseline(delta, prev_votes) ==
    IF prev_votes # 0 THEN Quot(delta * 100, prev_votes) ELSE Whole(0)

\* delta_pct of one record
DeltaPct(delta, prev_votes) ==
    IF HasBaseline(prev_votes) THEN Quot(delta * 100, prev_votes) ELSE Undefined

\* mutant: the delta taken as previous - current
ChangeOf_DeltaReversed(current, previous, addr) ==
    LET curr_votes == VotesOr0(current, addr)
        prev_votes == VotesOr0(previous, addr)
        delta == prev_votes - curr_votes
    IN [key |-> addr,
        address |-> IF addr \in DOMAIN current THEN current[addr].address
                    ELSE previous[addr].address,
        name |-> IF addr \in DOMAIN current THEN current[addr].name
                 ELSE previous[addr].name,
        current_votes |-> curr_votes,
        previous_votes |-> prev_votes,
        delta_votes |-> delta,
        delta_pct |-> IF prev_votes # 0 THEN Quot(delta * 100, prev_votes) ELSE Undefined]

\* mutant: the previous votes looked up in the current snapshot
ChangeOf_PreviousFromCurrent(current, previous, addr) ==
    LET curr_votes == VotesOr0(current, addr)
        prev_votes == VotesOr0(current, addr)
        delta == curr_votes - prev_votes
    IN [key |-> addr,
        address |-> IF addr \in DOMAIN current THEN current[addr].address
                    ELSE previous[addr].address,
        name |-> IF addr \in DOMAIN current THEN current[addr].name
                 ELSE previous[addr].name,
        current_votes |-> curr_votes,
        previous_votes |-> prev_votes,
        delta_votes |-> delta,
        delta_pct |-> IF prev_votes # 0 THEN Quot(delta * 100, prev_votes) ELSE Undefined]

\* the record compare_vote_changes appends for one address
ChangeOf(current, previous, addr) ==
    LET curr_votes == VotesOr0(current, addr)
        prev_votes == VotesOr0(previous, addr)
        delta == curr_votes - prev_votes
    IN [key |-> addr,
        address |-> IF addr \in DOMAIN current THEN current[addr].address
                    ELSE IF addr \in DOMAIN previous THEN previous[addr].address
                    ELSE addr,
        name |-> IF addr \in DOMAIN current THEN current[addr].name
                 ELSE IF addr \in DOMAIN previous THEN previous[addr].name
                 ELSE addr,
        current_votes |-> curr_votes,
        previous_votes |-> prev_votes,
        delta_votes |-> delta,
        delta_pct |-> DeltaPct(delta, prev_votes)]

\* mutant: the sort key without abs()
SortKey_Signed(x) == x.delta_votes

\* the sort key of changes.sort
SortKey(x) == Abs(x.delta_votes)

\* x placed into a list already in sort order, after the records it does not beat
\* (list.sort is stable, also with reverse=True)
RECURSIVE InsertSorted(_, _)
InsertSorted(x, s) ==
    IF s = <<>> THEN <<x>>
    ELSE IF SortKey(Head(s)) >= SortKey(x) THEN <<Head(s)>> \o InsertSorted(x, Tail(s))
    ELSE <<x>> \o s

RECURSIVE SortFrom(_, _)
SortFrom(todo, done) ==
    IF todo = <<>> THEN done ELSE SortFrom(Tail(todo), InsertSorted(Head(todo), done))

\* changes.sort(key=lambda x: abs(x["delta_votes"]), reverse=True)
SortChanges(s) == SortFrom(s, <<>>)

\* the orders in which `for addr in addresses` may visit a set
IterOrders(S) ==
    {o \in [1..Cardinality(S) -> S] : \A i, j \in DOMAIN o : i # j => o[i] # o[j]}

\* the argument top_n: None, or an integer
NoTop == [given |-> FALSE, n |-> 0]
Top(n) == [given |-> TRUE, n |-> n]
TopChoices == {NoTop, Top(0), Top(1)}

\* the test `if top_n`: false for None and for 0
TopTruthy(t) == t.given /\ t.n # 0

\* changes[:top_n] if top_n else changes
Truncate(s, t) ==
    IF TopTruthy(t) THEN SubSeq(s, 1, IF t.n < Len(s) THEN t.n ELSE Len(s)) ELSE s

\* compare_vote_changes(current_path, previous_path, top_n)
CompareVoteChanges ==
    /\ cmp_pc = "start"
    /\ LET current == LoadVotes(cur_csv)
           previous == LoadVotes(prev_csv)
           addresses == DOMAIN current \cup DOMAIN previous
       IN \E order \in IterOrders(addresses) :
            LET unsorted == [i \in DOMAIN order |-> ChangeOf(current, previous, order[i])]
                sorted == SortChanges(unsorted)
            IN /\ changes' = sorted
               /\ \E n \in TopChoices :
                    /\ returned' = Truncate(sorted, n)
                    /\ top_n' = n
    /\ cmp_pc' = "done"
    /\ UNCHANGED <<cur_csv, prev_csv>>
    /\ UNCHANGED run_vars
    /\ UNCHANGED file_vars

-----------------------------------------------------------------------------
(* Dictionaries *)

EmptyMap == [k \in {} |-> 0]

\* dict.update for dictionaries held as functions
MapUpdate(m, n) ==
    [k \in DOMAIN m \cup DOMAIN n |-> IF k \in DOMAIN n THEN n[k] ELSE m[k]]

\* the keys of a dictionary held as a list of <<key, value>> items
ItemKeys(items) == {items[i][1] : i \in DOMAIN items}

\* the elements of a set in one fixed order
RECURSIVE SetToSeq(_)
SetToSeq(S) ==
    IF S = {} THEN <<>>
    ELSE LET x == CHOOSE x \in S : TRUE IN <<x>> \o SetToSeq(S \ {x})

\* {k.lower(): v for k, v in items}: a later item overrides an earlier one
RECURSIVE LowerKeysFrom(_, _)
LowerKeysFrom(items, m) ==
    IF items = <<>> THEN m
    ELSE LET k == Lower(Head(items)[1])
             v == Head(items)[2]
         IN LowerKeysFrom(Tail(items),
                          [x \in DOMAIN m \cup {k} |-> IF x = k THEN v ELSE m[x]])

LowerKeys(items) == LowerKeysFrom(items, EmptyMap)

-----------------------------------------------------------------------------
(* Prices and decimals (main.py) *)

DEFAULT_PRICE_MAP == <<(<<"0xusdc", 1>>)>>

\* token_prices.json: absent, unreadable, or a JSON object (its items in order)
NoFile == [exists |-> FALSE, readable |-> FALSE, items |-> <<>>]
JsonFile(items) == [exists |-> TRUE, readable |-> TRUE, items |-> items]
BrokenFile == [exists |-> TRUE, readable |-> FALSE, items |-> <<>>]

\* one access to token_prices.json: a read or a write, and the position of the
\* run at which it happens
FileOp(op, at) == [op |-> op, at |-> at]

\* the reads `if path.exists(): with open(path) ...` makes of the file
FileReads(file, at) == IF file.exists THEN <<FileOp("read", at)>> ELSE <<>>

\* _load_price_map: the defaults, overridden by the file when it can be read
LoadPriceMap(file) ==
    LET defaults == LowerKeys(DEFAULT_PRICE_MAP)
    IN IF file.exists /\ file.readable
       THEN MapUpdate(defaults, LowerKeys(file.items))
       ELSE defaults

\* _token_decimals: 18 for the zero address, WETH and failed calls, else the
\* token's own decimals (USDC has fewer than the default)
TokenDecimals(address) ==
    IF Lower(address) = "0xusdc" THEN 0 ELSE DefaultDecimals

RECURSIVE Pow10(_)
Pow10(n) == IF n = 0 THEN 1 ELSE 10 * Pow10(n - 1)

\* USD values are exact: an integer count of 1/UsdDen dollars
UsdDen == Pow10(DefaultDecimals)

\* whether price_map.get(token.lower()) is None
NoPrice(token, pm) == Lower(token) \notin DOMAIN pm

\* mutant: a token without price valued at a price of 1
UsdAmount_PriceOne(token, amount, pm) ==
    (amount * (IF NoPrice(token, pm) THEN 1 ELSE pm[Lower(token)]) * UsdDen)
        \div Pow10(TokenDecimals(token))

\* _usd_amount: (amount / 10**decimals) * price, 0.0 for a token without price
UsdAmount(token, amount, pm) ==
    IF NoPrice(token, pm) THEN 0
    ELSE (amount * pm[Lower(token)] * UsdDen) \div Pow10(TokenDecimals(token))

\* the tokens _usd_amount adds to _UNPRICED_TOKENS for a list of items
UnpricedIn(items, pm) ==
    {Lower(items[i].token) : i \in {j \in DOMAIN items : NoPrice(items[j].token, pm)}}

RECURSIVE SumUsd(_, _)
SumUsd(items, pm) ==
    IF items = <<>> THEN 0
    ELSE UsdAmount(Head(items).token, Head(items).amount, pm) + SumUsd(Tail(items), pm)

-----------------------------------------------------------------------------
(* parse_pool and write_csv (main.py) *)

\* a reward argument of None
NoReward == [given |-> FALSE, ts |-> 0, bribes |-> <<>>, fees |-> <<>>]

\* one normalized reward epoch
Epoch(ts, bribes, fees) == [given |-> TRUE, ts |-> ts, bribes |-> bribes, fees |-> fees]

Item(token, amount) == [token |-> token, amount |-> amount]

\* the display name: the symbol, or the pool address for an empty symbol
DisplayName(pool) == IF pool.symbol = "" THEN pool.lp ELSE pool.symbol

\* mutant: the guard written as a truth test, `if tvv`
VotesPerTvv_Truthy(votes_raw, tvv) == IF tvv # 0 THEN Quot(votes_raw, tvv) ELSE Undefined

\* votes_per_tvv = (votes_raw / 1e18) / tvv if tvv > 0 else nan, held as the
\* exact quotient votes_raw / tvv in units of UsdDen / 1e18
VotesPerTvv(votes_raw, tvv) == IF tvv > 0 THEN Quot(votes_raw, tvv) ELSE Undefined

\* parse_pool(struct, votes_raw, reward, price_map): the PoolRow
ParsePool(pool, votes_raw, reward, pm) ==
    LET tfv == SumUsd(reward.fees, pm)
        tbv == SumUsd(reward.bribes, pm)
        tvv == tfv + tbv
    IN [address |-> pool.lp,
        name |-> DisplayName(pool),
        token0 |-> pool.token0,
        token1 |-> pool.token1,
        votes_raw |-> votes_raw,
        votes |-> Quot(votes_raw, Pow10(VoteDecimals)),
        ratio |-> IF votes_raw # 0 THEN Quot(tvv, votes_raw) ELSE Undefined,
        tfv |-> tfv,
        tbv |-> tbv,
        tvv |-> tvv,
        votes_per_tvv |-> VotesPerTvv(votes_raw, tvv),
        rewards_epoch_ts |-> IF reward.given THEN reward.ts ELSE 0]

\* the tokens parse_pool adds to _UNPRICED_TOKENS
ParsePoolUnpriced(reward, pm) ==
    UnpricedIn(reward.fees, pm) \cup UnpricedIn(reward.bribes, pm)

RECURSIVE SumField(_, _)
SumField(rs, f) == IF rs = <<>> THEN 0 ELSE Head(rs)[f] + SumField(Tail(rs), f)

\* mutant: the share of the votes written as a fraction, not as a percentage
VotePct_Fraction(votes_raw, total_votes) ==
    IF total_votes # 0 THEN Quot(votes_raw, total_votes) ELSE Undefined

\* vote_pct = (r.votes_raw / total_votes * 100) if total_votes else math.nan
VotePct(votes_raw, total_votes) ==
    IF total_votes # 0 THEN Quot(votes_raw * 100, total_votes) ELSE Undefined

\* one pool row as write_csv writes it
CsvPoolRow(r, total_votes) ==
    [name |-> r.name,
     vote_pct |-> VotePct(r.votes_raw, total_votes),
     address |-> r.address,
     token0 |-> r.token0,
     token1 |-> r.token1,
     votes_raw |-> r.votes_raw,
     votes |-> r.votes,
     ratio |-> r.ratio,
     tfv |-> r.tfv,
     tbv |-> r.tbv,
     tvv |-> r.tvv,
     votes_per_tvv |-> r.votes_per_tvv,
     rewards_epoch_ts |-> r.rewards_epoch_ts]

\* the TOTAL row of write_csv: the dict it passes to writerow, which has no
\* key "votes" and no key "rewards_epoch_ts" (DictWriter fills a column
\* without key with its restval, the empty string)
CsvTotalRow(rs) ==
    LET total_votes == SumField(rs, "votes_raw")
        total_tvv == SumField(rs, "tvv")
    IN [name |-> "TOTAL",
        vote_pct |-> Whole(100),
        address |-> "",
        token0 |-> "",
        token1 |-> "",
        votes_raw |-> total_votes,
        ratio |-> IF total_votes # 0 THEN Quot(total_tvv, total_votes) ELSE Undefined,
        tfv |-> SumField(rs, "tfv"),
        tbv |-> SumField(rs, "tbv"),
        tvv |-> total_tvv,
        votes_per_tvv |-> VotesPerTvv(total_votes, total_tvv)]

\* write_csv: the pool rows, then the TOTAL row when there is a row
WriteCsvRows(rs) ==
    LET total_votes == SumField(rs, "votes_raw")
    IN [i \in DOMAIN rs |-> CsvPoolRow(rs[i], total_votes)]
       \o (IF rs # <<>> THEN <<CsvTotalRow(rs)>> ELSE <<>>)

-----------------------------------------------------------------------------
(* The chain and the price service *)

\* the pool struct the sugar contract lists at index i (addresses as decoded)
ChainPool(i) ==
    [lp |-> AddrLower[i],
     symbol |-> IF i = 3 THEN "" ELSE "POOL",
     token0 |-> CASE i = 1 -> "0xusdc" [] i = 2 -> ZERO_ADDR [] i = 3 -> "0xweth"
                  [] OTHER -> "0xusdc",
     token1 |-> CASE i = 1 -> "0xweth" [] i = 2 -> "0xweth" [] OTHER -> "0xaero",
     emissions_token |-> "0xaero"]

\* the latest reward epoch the rewards contract holds for pool i
ChainEpoch(i) ==
    CASE i = 1 -> Epoch(7, <<Item("0xbrib", 5)>>, <<Item("0xweth", 3)>>)
      [] i = 2 -> Epoch(7, <<>>, <<Item("0xusdc", 1)>>)
      [] i = 3 -> Epoch(7, <<Item("0xaero", 4)>>, <<Item("0xusdc", 2)>>)
      [] OTHER -> Epoch(7, <<Item("0xbrib", 1)>>, <<>>)

\* the index of a listed pool address
PoolIndex(lp) == CHOOSE i \in DOMAIN AddrUpper : AddrUpper[i] = lp

\* what the price service knows: token -> price (a coin without "price" gives 0)
ServiceTables ==
    {[t \in {"0xweth", "0xaero", "0xbrib"} |->
        CASE t = "0xweth" -> 2 [] t = "0xaero" -> 0 [] OTHER -> 3]}

\* the states token_prices.json may be in when a run starts
PriceFiles == {NoFile, JsonFile(<<(<<"0xWETH", 1>>)>>)}

Pow2(n) == 2 ^ n

\* the return words the weights call for pool i may answer with: zero, a
\* positive weight of its own, and the word of -1
RawWords(i) == {0, ((i - 1) % (Pow2(WordBits - 1) - 1)) + 1, Pow2(WordBits) - 1}

-----------------------------------------------------------------------------
(* Fetchers (main.py, fetch_prices.py) *)

\* mutant: the sign test written as `val > 2**255`
DecodeInt256_Above(val) == IF val > Pow2(WordBits - 1) THEN val - Pow2(WordBits) ELSE val

\* _decode_int256: the word as a two's-complement signed integer
DecodeInt256(val) == IF val >= Pow2(WordBits - 1) THEN val - Pow2(WordBits) ELSE val

\* _normalize_pool: the address fields checksummed
NormalizePool(struct) ==
    [struct EXCEPT !.lp = ToChecksum(@), !.token0 = ToChecksum(@),
                   !.token1 = ToChecksum(@), !.emissions_token = ToChecksum(@)]

\* all_tokens of iter_pools: the pool tokens, lower-cased
PoolTokens(ps) ==
    UNION {{Lower(ps[i].token0), Lower(ps[i].token1), Lower(ps[i].emissions_token)} :
             i \in DOMAIN ps}

\* mutant: the slice taken one element too long, addresses[start : start + size + 1]
ChunkOf_Overlapping(s, size, len) ==
    (s + 1)..(IF s + size + 1 < len THEN s + size + 1 ELSE len)

\* the list positions of the chunk that starts at s (call_id = position - 1)
ChunkOf(s, size, len) == (s + 1)..(IF s + size < len THEN s + size ELSE len)

\* one request to the RPC endpoint: the function called and its window; for a
\* batch of eth_calls the call ids are offset .. offset + limit - 1
Call(fn, offset, limit) == [fn |-> fn, offset |-> offset, limit |-> limit]

\* mutant: every window as long as the first, limit = batch_size
Limit_Full(tot, offset) == BatchSize

\* limit = min(batch_size, total - offset)
Limit(tot, offset) == IF BatchSize < tot - offset THEN BatchSize ELSE tot - offset

\* the chunk starts range(0, len, size) runs through
ChunkStarts(len, size) == {s \in 0..len : s < len /\ s % size = 0}

\* fetch_prices: the prices of the tokens in the chunks that did not fail
FetchPrices(tokens_list, bad, svc) ==
    LET good == {i \in DOMAIN tokens_list :
                   ((i - 1) \div PriceChunk) * PriceChunk \notin bad}
        got == {tokens_list[i] : i \in good} \cap DOMAIN svc
    IN [t \in got |-> svc[t]]

\* the chunks fetch_prices requests, in order: the tokens of tokens_list[i:i+30]
\* and whether the request answered
PriceChunks(tokens_list, bad) ==
    [k \in 1..((Len(tokens_list) + PriceChunk - 1) \div PriceChunk) |->
        [tokens |-> {tokens_list[i] :
                       i \in ChunkOf((k - 1) * PriceChunk, PriceChunk, Len(tokens_list))},
         ok |-> (k - 1) * PriceChunk \notin bad]]

\* current_map.update(new_prices) on the items of the file
UpdateItems(items, prices) ==
    [i \in DOMAIN items |->
        IF items[i][1] \in DOMAIN prices
        THEN <<items[i][1], prices[items[i][1]]>> ELSE items[i]]
    \o LET fresh == SetToSeq(DOMAIN prices \ ItemKeys(items))
       IN [i \in DOMAIN fresh |-> <<fresh[i], prices[fresh[i]]>>]

\* update_price_map: the file after a complete write
UpdatePriceMap(file, prices) ==
    LET current_map == IF file.exists /\ file.readable THEN file.items ELSE <<>>
        final_map == LowerKeys(UpdateItems(current_map, prices))
        keys == SetToSeq(DOMAIN final_map)
    IN JsonFile([i \in DOMAIN keys |-> <<keys[i], final_map[keys[i]]>>])

\* mutant: the test written as `if not votes_raw: continue`
KeepVotes_NonZero(votes_raw) == votes_raw # 0

\* the test of iter_pools that keeps a pool: not `votes_raw <= 0`
KeepVotes(votes_raw) == votes_raw > 0

JunkTokens == {"0xffff"}

\* the test of iter_pools that drops malformed pool slots
JunkPool(pool) ==
    \/ Lower(pool.token0) = ZERO_ADDR
    \/ Lower(pool.token1) = ZERO_ADDR
    \/ Lower(pool.token0) \in JunkTokens
    \/ Lower(pool.token1) \in JunkTokens

\* int(weight_map.get(lp, 0))
WeightOr0(wm, lp) == IF lp \in DOMAIN wm THEN wm[lp] ELSE 0

\* reward_entries[0] if reward_entries else None
LatestReward(rm, lp) ==
    IF lp \in DOMAIN rm /\ rm[lp] # <<>> THEN rm[lp][1] ELSE NoReward

\* whether the loop of iter_pools yields a row for the pool
Yielded(pool, wm) == KeepVotes(WeightOr0(wm, pool.lp)) /\ ~JunkPool(pool)

\* the rows the loop of iter_pools yields
RECURSIVE YieldRows(_, _, _, _)
YieldRows(ps, wm, rm, pm) ==
    IF ps = <<>> THEN <<>>
    ELSE (IF Yielded(Head(ps), wm)
          THEN <<ParsePool(Head(ps), WeightOr0(wm, Head(ps).lp),
                           LatestReward(rm, Head(ps).lp), pm)>>
          ELSE <<>>)
         \o YieldRows(Tail(ps), wm, rm, pm)

\* the tokens the loop of iter_pools adds to _UNPRICED_TOKENS
YieldUnpriced(ps, wm, rm, pm) ==
    UNION {ParsePoolUnpriced(LatestReward(rm, ps[i].lp), pm) :
             i \in {j \in DOMAIN ps : Yielded(ps[j], wm)}}

-----------------------------------------------------------------------------
(* One pipeline run: __main__ of main.py *)

\* price_map = _load_price_map()
LoadPrices ==
    /\ pc = "load"
    /\ price_map' = LoadPriceMap(price_file)
    /\ price_io' = price_io \o FileReads(price_file, pc)
    /\ pc' = "count"
    /\ UNCHANGED new_prices
    /\ UNCHANGED <<responses, calls, price_chunks>>
    /\ UNCHANGED cmp_vars
    /\ UNCHANGED file_vars
    /\ UNCHANGED <<total, pools, price_file, requested, weight_map, reward_map,
                   start, failed, rows, unpriced, csv_out, log>>

\* total = get_pool_count()
GetPoolCount ==
    /\ pc = "count"
    /\ total' \in 0..MaxPools
    /\ log' = Append(log, "count")
    /\ calls' = Append(calls, Call("count", 0, 0))
    /\ pc' = "list"
    /\ start' = 0
    /\ UNCHANGED cmp_vars
    /\ UNCHANGED file_vars
    /\ UNCHANGED <<price_io, new_prices>>
    /\ UNCHANGED <<responses, price_chunks>>
    /\ UNCHANGED <<pools, price_file, price_map, requested, weight_map, reward_map,
                   failed, rows, unpriced, csv_out>>

\* one pass of `for offset in range(0, total, batch_size)`
FetchChunk ==
    /\ pc = "list"
    /\ start < total
    /\ LET limit == Limit(total, start)
       IN /\ pools' = pools \o [i \in 1..limit |-> NormalizePool(ChainPool(start + i))]
          /\ calls' = Append(calls, Call("all", start, limit))
    /\ log' = Append(log, "list")
    /\ start' = start + BatchSize
    /\ UNCHANGED cmp_vars
    /\ UNCHANGED file_vars
    /\ UNCHANGED <<price_io, new_prices>>
    /\ UNCHANGED <<responses, price_chunks>>
    /\ UNCHANGED <<pc, total, price_file, price_map, requested, weight_map,
                   reward_map, failed, rows, unpriced, csv_out>>

\* the listing loop ends
ListDone ==
    /\ pc = "list"
    /\ start >= total
    /\ pc' = "price"
    /\ UNCHANGED cmp_vars
    /\ UNCHANGED file_vars
    /\ UNCHANGED <<price_io, new_prices>>
    /\ UNCHANGED <<responses, calls, price_chunks>>
    /\ UNCHANGED <<total, pools, price_file, price_map, requested, weight_map,
                   reward_map, start, failed, rows, unpriced, csv_out, log>>

\* the price block of iter_pools when no pool token misses a price
PricesKnown ==
    /\ pc = "price"
    /\ {t \in PoolTokens(pools) : t \notin DOMAIN price_map} = {}
    /\ pc' = "weights"
    /\ start' = 0
    /\ UNCHANGED cmp_vars
    /\ UNCHANGED file_vars
    /\ UNCHANGED <<price_io, new_prices>>
    /\ UNCHANGED <<responses, calls, price_chunks>>
    /\ UNCHANGED <<total, pools, price_file, price_map, requested, weight_map,
                   reward_map, failed, rows, unpriced, csv_out, log>>

\* the price block of iter_pools: fetch_prices, update_price_map, price_map.update
\* (an exception of update_price_map is caught and leaves price_map as it was)
ResolvePrices ==
    /\ pc = "price"
    /\ LET missing == {t \in PoolTokens(pools) : t \notin DOMAIN price_map}
       IN /\ missing # {}
          /\ \E tokens_list \in IterOrders(missing) :
             \E bad \in SUBSET ChunkStarts(Len(tokens_list), PriceChunk) :
             \E svc \in ServiceTables :
             \E written \in {"ok", "dump fails"} :
               LET fetched == FetchPrices(tokens_list, bad, svc)
               IN /\ requested' = requested \cup missing
                  /\ new_prices' = fetched
                  /\ price_chunks' = price_chunks \o PriceChunks(tokens_list, bad)
                  /\ price_file' = IF written = "ok"
                                   THEN UpdatePriceMap(price_file, fetched)
                                   ELSE BrokenFile
                  /\ price_map' = IF written = "ok" THEN MapUpdate(price_map, fetched)
                                  ELSE price_map
    /\ price_io' = price_io \o FileReads(price_file, pc) \o <<FileOp("write", pc)>>
    /\ log' = Append(log, "price")
    /\ pc' = "weights"
    /\ start' = 0
    /\ UNCHANGED cmp_vars
    /\ UNCHANGED file_vars
    /\ UNCHANGED <<total, pools, weight_map, reward_map, failed, rows, unpriced, csv_out>>
    /\ UNCHANGED <<responses, calls>>

\* a reply item of a batch: without "result", or with a result
NoResult == [has_result |-> FALSE, word |-> 0, decodes |-> FALSE, empty |-> FALSE]
WeightReplies(i) ==
    {NoResult} \cup {[has_result |-> TRUE, word |-> w, decodes |-> TRUE, empty |-> FALSE] :
                       w \in RawWords(i)}
RewardReplies ==
    {NoResult} \cup {[has_result |-> TRUE, word |-> 0, decodes |-> d, empty |-> e] :
                       d \in BOOLEAN, e \in BOOLEAN}

\* mutant: an item without "result" is not skipped
HasResult_Always(item) == TRUE

\* the test `"result" in item`
HasResult(item) == item.has_result

\* one pass of the chunk loop of _fetch_weights whose _rpc_batch returns
FetchWeightsChunk ==
    /\ pc = "weights"
    /\ start < Len(pools)
    /\ LET batch == ChunkOf(start, WeightChunk, Len(pools))
       IN /\ calls' = Append(calls, Call("weights", start, Cardinality(batch)))
          /\ \E reply \in [batch -> UNION {WeightReplies(i) : i \in batch}] :
               LET got == {i \in batch : HasResult(reply[i])}
               IN /\ \A i \in batch : reply[i] \in WeightReplies(i)
                  /\ responses' = reply
                  /\ weight_map' =
                      MapUpdate(weight_map,
                                [a \in {pools[i].lp : i \in got} |->
                                   DecodeInt256(reply[CHOOSE i \in got : pools[i].lp = a].word)])
    /\ log' = Append(log, "weights")
    /\ start' = start + WeightChunk
    /\ UNCHANGED cmp_vars
    /\ UNCHANGED file_vars
    /\ UNCHANGED <<price_io, new_prices>>
    /\ UNCHANGED price_chunks
    /\ UNCHANGED <<pc, total, pools, price_file, price_map, requested, reward_map,
                   failed, rows, unpriced, csv_out>>

\* one pass of the chunk loop of _fetch_weights whose _rpc_batch raises:
\* nothing catches the exception, the run ends with it
FetchWeightsRaises ==
    /\ pc = "weights"
    /\ start < Len(pools)
    /\ failed' = failed \cup {<<"weights", start>>}
    /\ calls' = Append(calls, Call("weights", start,
                                   Cardinality(ChunkOf(start, WeightChunk, Len(pools)))))
    /\ log' = Append(log, "weights")
    /\ pc' = "raised"
    /\ UNCHANGED cmp_vars
    /\ UNCHANGED file_vars
    /\ UNCHANGED <<price_io, new_prices>>
    /\ UNCHANGED <<responses, price_chunks>>
    /\ UNCHANGED <<total, pools, price_file, price_map, requested, weight_map,
                   reward_map, start, rows, unpriced, csv_out>>

\* _fetch_weights returns
WeightsDone ==
    /\ pc = "weights"
    /\ start >= Len(pools)
    /\ pc' = "rewards"
    /\ start' = 0
    /\ responses' = EmptyMap
    /\ UNCHANGED cmp_vars
    /\ UNCHANGED file_vars
    /\ UNCHANGED <<price_io, new_prices>>
    /\ UNCHANGED <<calls, price_chunks>>
    /\ UNCHANGED <<total, pools, price_file, price_map, requested, weight_map,
                   reward_map, failed, rows, unpriced, csv_out, log>>

\* whether codec.decode raises on the result of the item
DecodeFails(item) == HasResult(item) /\ ~item.decodes

\* mutant: a decode failure ends the loop over the responses
Recorded_UntilFailure(batch, reply) ==
    {i \in batch : /\ HasResult(reply[i])
                   /\ \A j \in batch : j <= i => ~DecodeFails(reply[j])}

\* the positions _fetch_rewards_map stores an entry for: the items with a
\* result that decodes
Recorded(batch, reply) ==
    {i \in batch : HasResult(reply[i]) /\ ~DecodeFails(reply[i])}

\* one pass of the chunk loop of _fetch_rewards_map whose _rpc_batch returns
FetchRewardsChunk ==
    /\ pc = "rewards"
    /\ start < Len(pools)
    /\ LET batch == ChunkOf(start, RewardChunk, Len(pools))
       IN /\ calls' = Append(calls, Call("rewards", start, Cardinality(batch)))
          /\ \E reply \in [batch -> RewardReplies] :
               LET got == Recorded(batch, reply)
               IN /\ responses' = reply
                  /\ reward_map' =
                      MapUpdate(reward_map,
                                [a \in {pools[i].lp : i \in got} |->
                                   IF reply[CHOOSE i \in got : pools[i].lp = a].empty
                                   THEN <<>> ELSE <<ChainEpoch(PoolIndex(a))>>])
    /\ log' = Append(log, "rewards")
    /\ start' = start + RewardChunk
    /\ UNCHANGED cmp_vars
    /\ UNCHANGED file_vars
    /\ UNCHANGED <<price_io, new_prices>>
    /\ UNCHANGED price_chunks
    /\ UNCHANGED <<pc, total, pools, price_file, price_map, requested, weight_map,
                   failed, rows, unpriced, csv_out>>

\* one pass of the chunk loop of _fetch_rewards_map whose _rpc_batch raises
FetchRewardsRaises ==
    /\ pc = "rewards"
    /\ start < Len(pools)
    /\ failed' = failed \cup {<<"rewards", start>>}
    /\ calls' = Append(calls, Call("rewards", start,
                                   Cardinality(ChunkOf(start, RewardChunk, Len(pools)))))
    /\ log' = Append(log, "rewards")
    /\ pc' = "raised"
    /\ UNCHANGED cmp_vars
    /\ UNCHANGED file_vars
    /\ UNCHANGED <<price_io, new_prices>>
    /\ UNCHANGED <<responses, price_chunks>>
    /\ UNCHANGED <<total, pools, price_file, price_map, requested, weight_map,
                   reward_map, start, rows, unpriced, csv_out>>

\* _fetch_rewards_map returns
RewardsDone ==
    /\ pc = "rewards"
    /\ start >= Len(pools)
    /\ pc' = "valuate"
    /\ responses' = EmptyMap
    /\ UNCHANGED cmp_vars
    /\ UNCHANGED file_vars
    /\ UNCHANGED <<price_io, new_prices>>
    /\ UNCHANGED <<calls, price_chunks>>
    /\ UNCHANGED <<total, pools, price_file, price_map, requested, weight_map,
                   reward_map, start, failed, rows, unpriced, csv_out, log>>

\* the loop `for pool_dict in pools` of iter_pools, consumed by write_csv
Valuate ==
    /\ pc = "valuate"
    /\ rows' = YieldRows(pools, weight_map, reward_map, price_map)
    /\ unpriced' = unpriced \cup YieldUnpriced(pools, weight_map, reward_map, price_map)
    /\ log' = Append(log, "valuate")
    /\ pc' = "write"
    /\ UNCHANGED cmp_vars
    /\ UNCHANGED file_vars
    /\ UNCHANGED <<price_io, new_prices>>
    /\ UNCHANGED <<responses, calls, price_chunks>>
    /\ UNCHANGED <<total, pools, price_file, price_map, requested, weight_map,
                   reward_map, start, failed, csv_out>>

\* write_csv writes the pool rows and the TOTAL row
WriteCsv ==
    /\ pc = "write"
    /\ csv_out' = WriteCsvRows(rows)
    /\ pc' = "done"
    /\ UNCHANGED cmp_vars
    /\ UNCHANGED file_vars
    /\ UNCHANGED <<price_io, new_prices>>
    /\ UNCHANGED <<responses, calls, price_chunks>>
    /\ UNCHANGED <<total, pools, price_file, price_map, requested, weight_map,
                   reward_map, start, failed, rows, unpriced, log>>

\* pools_<ts>.csv (counter 0) and pools_<ts>_<counter>.csv
Path(ts, counter) == [alias |-> FALSE, ts |-> ts, counter |-> counter]

\* pools.csv, the "latest" copy
LatestPath == [alias |-> TRUE, ts |-> 0, counter |-> 0]

\* snapshot_path before a run has chosen it
NoPath == [alias |-> FALSE, ts |-> 0, counter |-> 0]

\* a CSV file: its header line and its rows
CsvFile(lines) == [header |-> TRUE, lines |-> lines]

\* a file just opened for writing: no byte yet
EmptyFile == [header |-> FALSE, lines |-> <<>>]

\* the directory without CSV file
EmptyDir == [p \in {} |-> EmptyFile]

\* no call of a discovery function yet
NoLookup == [fn |-> "none", args |-> <<>>, out |-> <<>>]

\* the directory while no file operation is modelled
FilesIdle ==
    /\ fs = EmptyDir
    /\ now = 0
    /\ snapshot_path = NoPath
    /\ mtime = <<>>
    /\ lookup = NoLookup

\* the pipeline variables while no run is modelled
RunIdle ==
    /\ pc = "idle"
    /\ total = 0
    /\ pools = <<>>
    /\ price_file = NoFile
    /\ price_map = EmptyMap
    /\ requested = {}
    /\ weight_map = EmptyMap
    /\ reward_map = EmptyMap
    /\ start = 0
    /\ failed = {}
    /\ rows = <<>>
    /\ unpriced = {}
    /\ csv_out = <<>>
    /\ log = <<>>
    /\ price_io = <<>>
    /\ new_prices = EmptyMap
    /\ responses = EmptyMap
    /\ calls = <<>>
    /\ price_chunks = <<>>

\* the comparator variables while no comparison is modelled
CmpIdle ==
    /\ cmp_pc = "idle"
    /\ cur_csv = <<>>
    /\ prev_csv = <<>>
    /\ top_n = NoTop
    /\ changes = <<>>
    /\ returned = <<>>

CmpInit ==
    /\ FilesIdle
    /\ cmp_pc = "start"
    /\ \/ cur_csv \in Snapshots /\ prev_csv \in SnapshotsIn("upper")
       \/ cur_csv = ScenarioCurrent /\ prev_csv = ScenarioPrevious
    /\ top_n = NoTop
    /\ changes = <<>>
    /\ returned = <<>>
    /\ RunIdle

CmpNext == CompareVoteChanges

\* the comparator on two snapshots
SpecCompare == CmpInit /\ [][CmpNext]_vars

Init ==
    /\ FilesIdle
    /\ CmpIdle
    /\ pc = "load"
    /\ total = 0
    /\ pools = <<>>
    /\ price_file \in PriceFiles
    /\ price_map = EmptyMap
    /\ requested = {}
    /\ weight_map = EmptyMap
    /\ reward_map = EmptyMap
    /\ start = 0
    /\ failed = {}
    /\ rows = <<>>
    /\ unpriced = {}
    /\ csv_out = <<>>
    /\ log = <<>>
    /\ price_io = <<>>
    /\ new_prices = EmptyMap
    /\ responses = EmptyMap
    /\ calls = <<>>
    /\ price_chunks = <<>>

Next ==
    \/ LoadPrices
    \/ GetPoolCount
    \/ FetchChunk
    \/ ListDone
    \/ PricesKnown
    \/ ResolvePrices
    \/ FetchWeightsChunk
    \/ FetchWeightsRaises
    \/ WeightsDone
    \/ FetchRewardsChunk
    \/ FetchRewardsRaises
    \/ RewardsDone
    \/ Valuate
    \/ WriteCsv

\* one pipeline run
Spec == Init /\ [][Next]_vars

-----------------------------------------------------------------------------
(* parse_pool and write_csv on their own, for arbitrary arguments *)

\* the pools, votes, rewards and price maps parse_pool is called with
ParsePools == {NormalizePool(ChainPool(i)) : i \in {1, 3}}
ParseVotes == {-1, 0, 1, 2}
ParseRewards == {NoReward, ChainEpoch(1), ChainEpoch(3)}
ParsePriceMaps ==
    {EmptyMap,
     LoadPriceMap(NoFile),
     LoadPriceMap(JsonFile(<<(<<"0xWETH", 2>>), (<<"0xbrib", 0>>)>>)),
     LoadPriceMap(JsonFile(<<(<<"0xUSDC", -1>>), (<<"0xaero", 1>>)>>))}

\* one call parse_pool(struct, votes_raw, reward, price_map), its row kept
CallParsePool ==
    /\ pc = "parse"
    /\ Len(rows) < MaxRows
    /\ \E pool \in ParsePools, votes_raw \in ParseVotes, reward \in ParseRewards,
          pm \in ParsePriceMaps :
         /\ rows' = Append(rows, ParsePool(pool, votes_raw, reward, pm))
         /\ unpriced' = unpriced \cup ParsePoolUnpriced(reward, pm)
    /\ UNCHANGED cmp_vars
    /\ UNCHANGED file_vars
    /\ UNCHANGED <<price_io, new_prices>>
    /\ UNCHANGED <<responses, calls, price_chunks>>
    /\ UNCHANGED <<pc, total, pools, price_file, price_map, requested, weight_map,
                   reward_map, start, failed, csv_out, log>>

\* write_csv(rows) on the rows made so far
CallWriteCsv ==
    /\ pc = "parse"
    /\ csv_out' = WriteCsvRows(rows)
    /\ pc' = "written"
    /\ UNCHANGED cmp_vars
    /\ UNCHANGED file_vars
    /\ UNCHANGED <<price_io, new_prices>>
    /\ UNCHANGED <<responses, calls, price_chunks>>
    /\ UNCHANGED <<total, pools, price_file, price_map, requested, weight_map,
                   reward_map, start, failed, rows, unpriced, log>>

ValuateInit ==
    /\ FilesIdle
    /\ CmpIdle
    /\ pc = "parse"
    /\ total = 0
    /\ pools = <<>>
    /\ price_file = NoFile
    /\ price_map = EmptyMap
    /\ requested = {}
    /\ weight_map = EmptyMap
    /\ reward_map = EmptyMap
    /\ start = 0
    /\ failed = {}
    /\ rows = <<>>
    /\ unpriced = {}
    /\ csv_out = <<>>
    /\ log = <<>>
    /\ price_io = <<>>
    /\ new_prices = EmptyMap
    /\ responses = EmptyMap
    /\ calls = <<>>
    /\ price_chunks = <<>>

ValuateNext == CallParsePool \/ CallWriteCsv

\* parse_pool and write_csv as functions of their arguments
SpecValuate == ValuateInit /\ [][ValuateNext]_vars

-----------------------------------------------------------------------------
(* The snapshot files of the working directory: the runs of __main__ of    *)
(* main.py one after another, and migrate_pool_names.py                    *)

\* the timestamped snapshots of a directory (glob pools_*.csv)
Timestamped(files) == {p \in DOMAIN files : ~p.alias}

\* the loop `while path.exists()` of _timestamped_csv_path
RECURSIVE FreePath(_, _, _)
FreePath(files, ts, counter) ==
    IF Path(ts, counter) \in DOMAIN files
    THEN FreePath(files, ts, counter + 1)
    ELSE Path(ts, counter)

\* _timestamped_csv_path at the second ts
TimestampedCsvPath(files, ts) == FreePath(files, ts, 0)

\* the modification times after a write to path: path is now the newest file
Touch(mt, path) == SelectSeq(mt, LAMBDA p : p # path) \o <<path>>

\* open(path, "w") and the writes: the file is created or replaced
WriteFile(files, path, file) ==
    [p \in DOMAIN files \cup {path} |-> IF p = path THEN file ELSE files[p]]

\* the records iter_pools may yield in a run: none, a pool with a symbol, and
\* a pool without symbol (named by its address) before a pool with a symbol
RunRows ==
    {<<>>,
     <<ParsePool(NormalizePool(ChainPool(1)), 1, ChainEpoch(1), LoadPriceMap(NoFile))>>,
     <<ParsePool(NormalizePool(ChainPool(3)), 2, ChainEpoch(3), LoadPriceMap(NoFile)),
       ParsePool(NormalizePool(ChainPool(1)), 1, NoReward, EmptyMap)>>}

\* the clock advances
Tick ==
    /\ now < MaxClock
    /\ now' = now + 1
    /\ UNCHANGED cmp_vars
    /\ UNCHANGED run_vars
    /\ lookup' = NoLookup
    /\ UNCHANGED <<fs, snapshot_path, mtime>>

\* a run starts: snapshot_path = _timestamped_csv_path()
SelectPath ==
    /\ pc = "idle"
    /\ Cardinality(Timestamped(fs)) < MaxSnapshots
    /\ snapshot_path' = TimestampedCsvPath(fs, now)
    /\ pc' = "selected"
    /\ UNCHANGED cmp_vars
    /\ UNCHANGED <<total, pools, price_file, price_map, requested, weight_map,
                   reward_map, start, failed, rows, unpriced, csv_out, log, price_io,
                   new_prices>>
    /\ UNCHANGED <<responses, calls, price_chunks>>
    /\ lookup' = NoLookup
    /\ UNCHANGED <<fs, now, mtime>>

\* iter_pools raises while write_csv collects the rows: the run ends, no file
RunRaises ==
    /\ pc = "selected"
    /\ pc' = "idle"
    /\ UNCHANGED cmp_vars
    /\ UNCHANGED <<total, pools, price_file, price_map, requested, weight_map,
                   reward_map, start, failed, rows, unpriced, csv_out, log, price_io,
                   new_prices>>
    /\ UNCHANGED <<responses, calls, price_chunks>>
    /\ lookup' = NoLookup
    /\ UNCHANGED <<fs, now, snapshot_path, mtime>>

\* write_csv(iter_pools(...), path=snapshot_path)
WriteSnapshot ==
    /\ pc = "selected"
    /\ \E rs \in RunRows :
         /\ rows' = rs
         /\ csv_out' = WriteCsvRows(rs)
         /\ fs' = WriteFile(fs, snapshot_path, CsvFile(WriteCsvRows(rs)))
    /\ mtime' = Touch(mtime, snapshot_path)
    /\ pc' = "written"
    /\ UNCHANGED cmp_vars
    /\ UNCHANGED <<total, pools, price_file, price_map, requested, weight_map,
                   reward_map, start, failed, unpriced, log, price_io, new_prices>>
    /\ UNCHANGED <<responses, calls, price_chunks>>
    /\ lookup' = NoLookup
    /\ UNCHANGED <<now, snapshot_path>>

\* mutant: the copy leaves the destination as it was opened
CopiedFile_Nothing(files, src) == EmptyFile

\* the bytes shutil.copy writes to the destination: those of the source
CopiedFile(files, src) == files[src]

\* shutil.copy(snapshot_path, "pools.csv") opens pools.csv for writing
CopyOpen ==
    /\ pc = "written"
    /\ fs' = WriteFile(fs, LatestPath, EmptyFile)
    /\ mtime' = Touch(mtime, LatestPath)
    /\ pc' = "copying"
    /\ UNCHANGED cmp_vars
    /\ UNCHANGED <<total, pools, price_file, price_map, requested, weight_map,
                   reward_map, start, failed, rows, unpriced, csv_out, log, price_io,
                   new_prices>>
    /\ UNCHANGED <<responses, calls, price_chunks>>
    /\ lookup' = NoLookup
    /\ UNCHANGED <<now, snapshot_path>>

\* shutil.copy(snapshot_path, "pools.csv") writes the bytes; the run ends
CopyData ==
    /\ pc = "copying"
    /\ fs' = WriteFile(fs, LatestPath, CopiedFile(fs, snapshot_path))
    /\ mtime' = Touch(mtime, LatestPath)
    /\ pc' = "idle"
    /\ UNCHANGED cmp_vars
    /\ UNCHANGED <<total, pools, price_file, price_map, requested, weight_map,
                   reward_map, start, failed, rows, unpriced, csv_out, log, price_io,
                   new_prices>>
    /\ UNCHANGED <<responses, calls, price_chunks>>
    /\ lookup' = NoLookup
    /\ UNCHANGED <<now, snapshot_path>>

\* name.startswith("0x") and len(name) == 42, on the names of the model
LooksLikeAddress(name) ==
    \E i \in DOMAIN AddrUpper : name \in {AddrUpper[i], AddrLower[i]}

\* _token_symbol(token): the symbol of the token contract
TokenSymbol(token) ==
    CASE Lower(token) = "0xusdc" -> "USDC"
      [] Lower(token) = "0xweth" -> "WETH"
      [] Lower(token) = "0xaero" -> "AERO"
      [] OTHER -> "UNKNOWN"

\* whether migrate_csv renames the row
Renamed(row) == LooksLikeAddress(row.name) /\ row.token0 # "" /\ row.token1 # ""

\* the row as migrate_csv keeps it in `rows`
MigrateRow(row) ==
    IF Renamed(row)
    THEN [row EXCEPT !.name = "CL-" \o TokenSymbol(row.token0) \o "/" \o TokenSymbol(row.token1)]
    ELSE row

\* migrate_csv(csv_path, dry_run) on one of the files glob("pools*.csv") lists
MigrateCsv ==
    /\ \E csv_path \in DOMAIN fs : \E dry_run \in BOOLEAN :
         LET lines == fs[csv_path].lines
             updated == Cardinality({i \in DOMAIN lines : Renamed(lines[i])})
             migrated == [i \in DOMAIN lines |-> MigrateRow(lines[i])]
         IN /\ fs' = IF ~dry_run /\ updated > 0
                     THEN WriteFile(fs, csv_path, CsvFile(migrated))
                     ELSE fs
            /\ mtime' = IF ~dry_run /\ updated > 0 THEN Touch(mtime, csv_path) ELSE mtime
    /\ UNCHANGED cmp_vars
    /\ UNCHANGED run_vars
    /\ lookup' = NoLookup
    /\ UNCHANGED <<now, snapshot_path>>

\* a path given on the command line that names no file
MissingPath == Path(0, 1)

\* sorted(paths, key=lambda p: p.stat().st_mtime, reverse=True)
ByMtime(paths, mt) ==
    LET oldest_first == SelectSeq(mt, LAMBDA p : p \in paths)
    IN [i \in 1..Len(oldest_first) |-> oldest_first[Len(oldest_first) + 1 - i]]

\* candidates of find_latest_csvs: glob("pools_*.csv") newest first, then
\* pools.csv appended when it exists
Candidates(files, mt) ==
    ByMtime(Timestamped(files), mt)
        \o (IF LatestPath \in DOMAIN files THEN <<LatestPath>> ELSE <<>>)

\* path.resolve(): the absolute path; the directory holds regular files only
Resolve(path) == <<"cwd", path>>

\* the loop of find_latest_csvs over the candidates left
RECURSIVE UniqueFrom(_, _, _, _)
UniqueFrom(candidates, seen, unique, limit) ==
    IF candidates = <<>> THEN unique
    ELSE LET path == Head(candidates)
             resolved == Resolve(path)
         IN IF resolved \in seen
            THEN UniqueFrom(Tail(candidates), seen, unique, limit)
            ELSE IF Len(unique) + 1 >= limit
                 THEN Append(unique, path)
                 ELSE UniqueFrom(Tail(candidates), seen \cup {resolved},
                                 Append(unique, path), limit)

\* find_latest_csvs(limit) in a directory of these files and stamps
FindLatestCsvs(files, mt, limit) ==
    UniqueFrom(Candidates(files, mt), {}, <<>>, limit)

\* main() that takes the paths as they come, without looking whether they exist
CompareMain_Unchecked(files, mt, current, previous) ==
    LET latest_two == FindLatestCsvs(files, mt, 2)
    IN IF (current = NoPath \/ previous = NoPath) /\ Len(latest_two) < 2
       THEN [code |-> 1, compared |-> <<>>]
       ELSE LET current_path == IF current # NoPath THEN current ELSE latest_two[1]
                previous_path == IF previous # NoPath THEN previous ELSE latest_two[2]
            IN [code |-> 0, compared |-> <<current_path, previous_path>>]

\* main() of compare_pools.py with --current and --previous (NoPath: option
\* not given): the exit code and the two files handed to compare_vote_changes
CompareMain(files, mt, current, previous) ==
    LET latest_two == FindLatestCsvs(files, mt, 2)
    IN IF (current = NoPath \/ previous = NoPath) /\ Len(latest_two) < 2
       THEN [code |-> 1, compared |-> <<>>]
       ELSE LET current_path == IF current # NoPath THEN current ELSE latest_two[1]
                previous_path == IF previous # NoPath THEN previous ELSE latest_two[2]
            IN IF current_path \notin DOMAIN files \/ previous_path \notin DOMAIN files
               THEN [code |-> 1, compared |-> <<>>]
               ELSE [code |-> 0, compared |-> <<current_path, previous_path>>]

\* _previous_snapshot(current_csv); NoPath stands for None
PreviousSnapshot(files, mt, current_csv) ==
    LET history == FindLatestCsvs(files, mt, HistoryLimit)
        found == {idx \in DOMAIN history :
                    /\ Resolve(history[idx]) = Resolve(current_csv)
                    /\ idx < Len(history)}
    IN IF found # {}
       THEN history[(CHOOSE idx \in found : \A j \in found : idx <= j) + 1]
       ELSE IF Len(history) >= 2 THEN history[2] ELSE NoPath

\* a call of a discovery function and what it returned
Lookup(fn, args, out) == [fn |-> fn, args |-> args, out |-> out]

\* find_latest_csvs(limit) with the limits its callers pass
FindLatestCsvsCall ==
    /\ lookup = NoLookup
    /\ \E limit \in {1, 2, HistoryLimit} :
         lookup' = Lookup("find_latest_csvs", <<limit>>,
                          FindLatestCsvs(fs, mtime, limit))
    /\ UNCHANGED cmp_vars
    /\ UNCHANGED run_vars
    /\ UNCHANGED <<fs, now, snapshot_path, mtime>>

\* the values of --current and --previous: not given, a path of no file, and
\* of the files of the directory the alias and the snapshot of the last run
PathOptions == (DOMAIN fs \cap {LatestPath, snapshot_path}) \cup {NoPath, MissingPath}

\* compare_pools.py run as a tool
CompareMainCall ==
    /\ lookup = NoLookup
    /\ \E current \in PathOptions : \E previous \in PathOptions :
         lookup' = Lookup("main", <<current, previous>>,
                          CompareMain(fs, mtime, current, previous))
    /\ UNCHANGED cmp_vars
    /\ UNCHANGED run_vars
    /\ UNCHANGED <<fs, now, snapshot_path, mtime>>

\* generate_html looking for the snapshot before current_csv, a file that exists
PreviousSnapshotCall ==
    /\ lookup = NoLookup
    /\ \E current_csv \in DOMAIN fs :
         lookup' = Lookup("_previous_snapshot", <<current_csv>>,
                          PreviousSnapshot(fs, mtime, current_csv))
    /\ UNCHANGED cmp_vars
    /\ UNCHANGED run_vars
    /\ UNCHANGED <<fs, now, snapshot_path, mtime>>

\* an empty directory at the first second, no run started
FilesInit ==
    /\ CmpIdle
    /\ RunIdle
    /\ fs = EmptyDir
    /\ now = 1
    /\ snapshot_path = NoPath
    /\ mtime = <<>>
    /\ lookup = NoLookup

FilesNext ==
    \/ Tick
    \/ SelectPath
    \/ RunRaises
    \/ WriteSnapshot
    \/ CopyOpen
    \/ CopyData
    \/ MigrateCsv
    \/ FindLatestCsvsCall
    \/ CompareMainCall
    \/ PreviousSnapshotCall

\* the snapshot files over the runs and the migrations
SpecFiles == FilesInit /\ [][FilesNext]_vars

-----------------------------------------------------------------------------
(* fetch_prices.py run as a tool: __main__ *)

\* the states token_prices.json may be in when the tool starts: absent,
\* unreadable, written by an earlier update, and edited by hand (checksummed
\* keys, and one address under two casings)
ToolPriceFiles ==
    {NoFile,
     BrokenFile,
     JsonFile(<<(<<"0xweth", 1>>), (<<"0xaero", 1>>)>>),
     JsonFile(<<(<<"0xUSDC", 1>>), (<<"0xWETH", 1>>)>>),
     JsonFile(<<(<<"0xWETH", 5>>), (<<"0xweth", 1>>)>>),
     JsonFile(<<(<<"0xweth", 1>>), (<<"0xWETH", 5>>)>>)}

\* the token sets get_tokens_from_csv may return
ToolTokens == {{}, {"0xweth"}, {"0xaero", "0xbrib"}, {"0xusdc", "0xweth", "0xaero"}}

\* tokens = get_tokens_from_csv(); prices = fetch_prices(tokens);
\* update_price_map(prices)
FetchPricesMain ==
    /\ pc = "tool"
    /\ Len(price_io) < 2 * MaxToolRuns
    /\ \E tokens \in ToolTokens :
       \E tokens_list \in IterOrders(tokens) :
       \E bad \in SUBSET ChunkStarts(Len(tokens_list), PriceChunk) :
       \E svc \in ServiceTables :
       \E written \in {"ok", "dump fails"} :
         LET fetched == FetchPrices(tokens_list, bad, svc)
         IN /\ new_prices' = fetched
            /\ price_chunks' = price_chunks \o PriceChunks(tokens_list, bad)
            /\ price_file' = IF written = "ok"
                             THEN UpdatePriceMap(price_file, fetched)
                             ELSE BrokenFile
    /\ price_io' = price_io \o FileReads(price_file, pc) \o <<FileOp("write", pc)>>
    /\ UNCHANGED cmp_vars
    /\ UNCHANGED file_vars
    /\ UNCHANGED <<pc, total, pools, price_map, requested, weight_map, reward_map,
                   start, failed, rows, unpriced, csv_out, log>>
    /\ UNCHANGED <<responses, calls>>

PricesInit ==
    /\ CmpIdle
    /\ FilesIdle
    /\ pc = "tool"
    /\ total = 0
    /\ pools = <<>>
    /\ price_file \in ToolPriceFiles
    /\ price_map = EmptyMap
    /\ requested = {}
    /\ weight_map = EmptyMap
    /\ reward_map = EmptyMap
    /\ start = 0
    /\ failed = {}
    /\ rows = <<>>
    /\ unpriced = {}
    /\ csv_out = <<>>
    /\ log = <<>>
    /\ price_io = <<>>
    /\ new_prices = EmptyMap
    /\ responses = EmptyMap
    /\ calls = <<>>
    /\ price_chunks = <<>>

PricesNext == FetchPricesMain

\* the price file over the runs of the tool
SpecPrices == PricesInit /\ [][PricesNext]_vars

-----------------------------------------------------------------------------
(* Properties of one pipeline run *)

\* the csv rows of write_csv that are pool rows (the TOTAL row comes last)
CsvPoolRows == IF csv_out = <<>> THEN <<>> ELSE SubSeq(csv_out, 1, Len(csv_out) - 1)

\* C1: every pool record iter_pools yields, and every pool row written, has
\* votes_raw > 0, and this is the weight fetched for the pool: a pool whose
\* weight is zero, negative or missing from the weight map is never emitted.
C1_YieldedVotesPositive ==
    /\ \A i \in DOMAIN rows :
         /\ rows[i].votes_raw > 0
         /\ rows[i].address \in DOMAIN weight_map
         /\ weight_map[rows[i].address] = rows[i].votes_raw
    /\ \A i \in DOMAIN CsvPoolRows : CsvPoolRows[i].votes_raw > 0

\* a finished run that wrote a pool and skipped pools for each reason: a
\* weight of zero or below, and no weight in the map
C1_Witness ==
    /\ pc = "done"
    /\ CsvPoolRows # <<>>
    /\ \E i \in DOMAIN pools :
         /\ ~JunkPool(pools[i])
         /\ pools[i].lp \in DOMAIN weight_map
         /\ weight_map[pools[i].lp] <= 0
    /\ \E i \in DOMAIN pools : pools[i].lp \notin DOMAIN weight_map

\* C3: a transport failure of one chunk of _fetch_weights or _fetch_rewards_map
\* aborts only that chunk: the fetch goes on and returns, the failure does not
\* end the run.
C3_ChunkFailureIsolated == failed # {} => pc # "raised"

\* the place of an external step in the order the design states
StepRank(step) ==
    CASE step = "count" -> 1
      [] step = "list" -> 2
      [] step = "weights" -> 3
      [] step = "rewards" -> 4
      [] step = "price" -> 5
      [] OTHER -> 6

\* C4: the external steps of a run happen in the order pool listing, weight
\* fetch, reward fetch, price lookup, valuation: no price request is issued
\* before the weights and the rewards have been fetched.
C4_StrictPipelineOrder ==
    \A i, j \in DOMAIN log : i < j => StepRank(log[i]) <= StepRank(log[j])

\* the fee and bribe tokens of the reward epoch of a yielded pool
RewardTokens(pool) ==
    LET reward == LatestReward(reward_map, pool.lp)
    IN {Lower(reward.fees[k].token) : k \in DOMAIN reward.fees}
       \cup {Lower(reward.bribes[k].token) : k \in DOMAIN reward.bribes}

\* C5: once the pools are valuated, every fee or bribe token of a kept pool's
\* reward epoch either has a price in the price map or has been submitted to
\* the price lookup; a token counted as unpriced (0 USD) was submitted.
C5_RewardTokensSubmitted ==
    pc \in {"write", "done"} =>
        /\ \A i \in DOMAIN pools :
             Yielded(pools[i], weight_map) =>
                 \A t \in RewardTokens(pools[i]) : t \in DOMAIN price_map \/ t \in requested
        /\ unpriced \subseteq requested

-----------------------------------------------------------------------------
(* Properties of parse_pool and write_csv *)

\* C2 as stated: in every row of parse_pool and in the TOTAL row, votes_per_tvv
\* is a positive number iff tvv > 0, and is the undefined marker otherwise;
\* it is never 0.
VptPositive(r) == r.votes_per_tvv.defined /\ r.votes_per_tvv.num > 0

C2_PositiveIffTvv ==
    /\ \A i \in DOMAIN rows :
         /\ VptPositive(rows[i]) <=> rows[i].tvv > 0
         /\ ~(rows[i].tvv > 0) => rows[i].votes_per_tvv = Undefined
    /\ \A i \in DOMAIN csv_out :
         /\ VptPositive(csv_out[i]) <=> csv_out[i].tvv > 0
         /\ ~(csv_out[i].tvv > 0) => csv_out[i].votes_per_tvv = Undefined

\* votes_per_tvv of a row: undefined exactly when tvv is not above 0, else the
\* quotient votes_raw / tvv, which has the sign of votes_raw
VptFollowsVotes(r) ==
    /\ r.votes_per_tvv.defined <=> r.tvv > 0
    /\ ~(r.tvv > 0) => r.votes_per_tvv = Undefined
    /\ r.tvv > 0 =>
         /\ r.votes_per_tvv.num * r.tvv = r.votes_raw * r.votes_per_tvv.den
         /\ (r.votes_raw > 0 => r.votes_per_tvv.num > 0)
         /\ (r.votes_raw = 0 => r.votes_per_tvv.num = 0)
         /\ (r.votes_raw < 0 => r.votes_per_tvv.num < 0)

\* C2 (amended): in every row of parse_pool and in the TOTAL row, votes_per_tvv
\* is the undefined marker exactly when tvv is not above 0; when tvv > 0 it is
\* the quotient of the votes by tvv: positive for votes_raw > 0, 0 for
\* votes_raw = 0 and negative for votes_raw < 0.
C2_UndefinedIffNoTvv ==
    /\ \A i \in DOMAIN rows : VptFollowsVotes(rows[i])
    /\ \A i \in DOMAIN csv_out : VptFollowsVotes(csv_out[i])

\* rows with a positive and a non-positive tvv, and a TOTAL row with tvv > 0
C2_Witness ==
    /\ pc = "written"
    /\ \E i \in DOMAIN rows : rows[i].tvv > 0 /\ rows[i].votes_raw > 0
    /\ \E i \in DOMAIN rows : rows[i].tvv <= 0
    /\ csv_out # <<>>
    /\ csv_out[Len(csv_out)].name = "TOTAL"
    /\ csv_out[Len(csv_out)].tvv > 0

-----------------------------------------------------------------------------
(* Properties of compare_vote_changes *)

CurVotes == LoadVotes(cur_csv)
PrevVotes == LoadVotes(prev_csv)

\* the address has the same votes in both snapshots
SameVotes(key) ==
    /\ key \in DOMAIN CurVotes
    /\ key \in DOMAIN PrevVotes
    /\ CurVotes[key].votes = PrevVotes[key].votes

\* C6 as stated: an address with identical votes in both snapshots, whatever
\* the votes (0 included), is reported with delta_votes = 0 and delta_pct = 0.
C6_IdenticalVotesZeroPct ==
    cmp_pc = "done" =>
        \A i \in DOMAIN changes :
            SameVotes(changes[i].key) =>
                changes[i].delta_votes = 0 /\ changes[i].delta_pct = Whole(0)

\* C6 (amended): an address with identical votes in both snapshots is reported
\* with delta_votes = 0, and with delta_pct = 0 when the votes are not 0; when
\* the identical votes are 0, delta_pct is undefined.
C6_IdenticalVotes ==
    cmp_pc = "done" =>
        \A i \in DOMAIN changes :
            SameVotes(changes[i].key) =>
                /\ changes[i].delta_votes = 0
                /\ changes[i].delta_pct =
                     IF CurVotes[changes[i].key].votes # 0 THEN Whole(0) ELSE Undefined

\* a comparison with identical non-zero votes for one address
C6_Witness ==
    /\ cmp_pc = "done"
    /\ \E i \in DOMAIN changes :
         SameVotes(changes[i].key) /\ changes[i].current_votes # 0

\* the address is in the previous snapshot only
OnlyPrevious(key) == key \in DOMAIN PrevVotes /\ key \notin DOMAIN CurVotes

\* the address is in the current snapshot only
OnlyCurrent(key) == key \in DOMAIN CurVotes /\ key \notin DOMAIN PrevVotes

\* C7 as stated: an address present only in the previous snapshot, whatever
\* its votes, is reported with current_votes = 0, delta_votes = -previous_votes
\* and delta_pct = -100.
C7_OnlyPreviousMinus100 ==
    cmp_pc = "done" =>
        \A i \in DOMAIN changes :
            OnlyPrevious(changes[i].key) =>
                /\ changes[i].current_votes = 0
                /\ changes[i].previous_votes = PrevVotes[changes[i].key].votes
                /\ changes[i].delta_votes = -changes[i].previous_votes
                /\ changes[i].delta_pct = Whole(-100)

\* C7 (amended): an address present only in the previous snapshot is reported
\* with current_votes = 0 and delta_votes = -previous_votes; delta_pct is -100
\* when its previous votes are not 0 and undefined when they are 0.
C7_OnlyPrevious ==
    cmp_pc = "done" =>
        \A i \in DOMAIN changes :
            OnlyPrevious(changes[i].key) =>
                /\ changes[i].current_votes = 0
                /\ changes[i].previous_votes = PrevVotes[changes[i].key].votes
                /\ changes[i].delta_votes = -changes[i].previous_votes
                /\ changes[i].delta_pct =
                     IF changes[i].previous_votes # 0 THEN Whole(-100) ELSE Undefined

\* a comparison with an address only in the previous snapshot, votes not 0
C7_Witness ==
    /\ cmp_pc = "done"
    /\ \E i \in DOMAIN changes :
         OnlyPrevious(changes[i].key) /\ changes[i].previous_votes # 0

\* delta_pct is the quotient delta / previous * 100
PctIsQuotient(c) ==
    c.delta_pct.num * c.previous_votes = c.delta_votes * 100 * c.delta_pct.den

\* C8 as stated: in every record delta_votes = current - previous, and
\* delta_pct is defined (delta / previous * 100) exactly when previous > 0;
\* for previous <= 0 it is undefined.
C8_PctDefinedIffPositive ==
    cmp_pc = "done" =>
        \A i \in DOMAIN changes :
            /\ changes[i].delta_votes = changes[i].current_votes - changes[i].previous_votes
            /\ changes[i].delta_pct.defined <=> changes[i].previous_votes > 0
            /\ changes[i].delta_pct.defined => PctIsQuotient(changes[i])
            /\ ~changes[i].delta_pct.defined => changes[i].delta_pct = Undefined

\* C8 (amended): in every record delta_votes = current - previous, and
\* delta_pct is defined (delta / previous * 100) exactly when previous is not
\* 0, negative previous votes included; it is undefined only for previous = 0.
C8_PctDefinedIffNonZero ==
    cmp_pc = "done" =>
        \A i \in DOMAIN changes :
            /\ changes[i].delta_votes = changes[i].current_votes - changes[i].previous_votes
            /\ changes[i].delta_pct.defined <=> changes[i].previous_votes # 0
            /\ changes[i].delta_pct.defined => PctIsQuotient(changes[i])
            /\ ~changes[i].delta_pct.defined => changes[i].delta_pct = Undefined

\* a comparison with records of positive, of negative and of zero previous votes
C8_Witness ==
    /\ cmp_pc = "done"
    /\ \E i \in DOMAIN changes : changes[i].previous_votes < 0
    /\ \E i \in DOMAIN changes :
         changes[i].previous_votes > 0 /\ changes[i].delta_votes # 0

\* C9: an address present only in the current snapshot is reported with
\* previous_votes = 0, delta_votes = current_votes and an undefined delta_pct.
C9_OnlyCurrent ==
    cmp_pc = "done" =>
        \A i \in DOMAIN changes :
            OnlyCurrent(changes[i].key) =>
                /\ changes[i].previous_votes = 0
                /\ changes[i].current_votes = CurVotes[changes[i].key].votes
                /\ changes[i].delta_votes = changes[i].current_votes
                /\ changes[i].delta_pct = Undefined

\* a comparison with an address only in the current snapshot, votes not 0
C9_Witness ==
    /\ cmp_pc = "done"
    /\ \E i \in DOMAIN changes :
         OnlyCurrent(changes[i].key) /\ changes[i].current_votes # 0

\* C10: the untruncated result holds exactly one record for each address of
\* the union of the two snapshots, ordered by non-increasing |delta_votes|.
C10_OneRecordEachSorted ==
    cmp_pc = "done" =>
        /\ {changes[i].key : i \in DOMAIN changes} = DOMAIN CurVotes \cup DOMAIN PrevVotes
        /\ \A i, j \in DOMAIN changes : i # j => changes[i].key # changes[j].key
        /\ \A i \in DOMAIN changes :
             i + 1 \in DOMAIN changes =>
                 Abs(changes[i].delta_votes) >= Abs(changes[i + 1].delta_votes)
        /\ ~TopTruthy(top_n) => returned = changes

\* an untruncated comparison of two records with different |delta_votes| of
\* opposite signs, the larger one negative
C10_Witness ==
    /\ cmp_pc = "done"
    /\ ~TopTruthy(top_n)
    /\ Len(returned) >= 2
    /\ returned[1].delta_votes < 0
    /\ returned[2].delta_votes > 0
    /\ Abs(returned[1].delta_votes) > Abs(returned[2].delta_votes)

-----------------------------------------------------------------------------
(* C11: truncation to top_n *)

\* the smaller of two numbers
Min(a, b) == IF a < b THEN a ELSE b

\* C11 as stated: for every supplied top_n >= 0 the call returns exactly the
\* first min(top_n, number of addresses) records of the full sorted list, and
\* the full list only when no top_n is supplied.
C11_TruncatedToTopN ==
    cmp_pc = "done" =>
        returned = IF top_n.given
                   THEN SubSeq(changes, 1, Min(top_n.n, Len(changes)))
                   ELSE changes

-----------------------------------------------------------------------------
(* C12: the scenario A, B, C *)

\* the comparison of ScenarioCurrent with ScenarioPrevious, no limit given
ScenarioCompared ==
    /\ cmp_pc = "done"
    /\ cur_csv = ScenarioCurrent
    /\ prev_csv = ScenarioPrevious
    /\ ~top_n.given

\* name, delta_votes and delta_pct of a record
Reported(c) == <<c.name, c.delta_votes, c.delta_pct>>

\* C12 as stated: the scenario is reported, on every execution, in the order
\* A (+50, +50%), C (-50, -100%), B (0, 0%); the order of the two records with
\* equal absolute delta does not depend on the set iteration order.
C12_ScenarioOrderFixed ==
    ScenarioCompared =>
        /\ Len(returned) = 3
        /\ Reported(returned[1]) = <<"A", 50, Whole(50)>>
        /\ Reported(returned[2]) = <<"C", -50, Whole(-100)>>
        /\ Reported(returned[3]) = <<"B", 0, Whole(0)>>

-----------------------------------------------------------------------------
(* C13: matching by canonical address *)

\* two texts of one address, whatever their letter casing
SameAddress(x, y) ==
    \E i \in DOMAIN AddrUpper :
        /\ x \in {AddrUpper[i], AddrLower[i]}
        /\ y \in {AddrUpper[i], AddrLower[i]}

\* the pool lines of a snapshot file
PoolLines(lines) == {i \in DOMAIN lines : lines[i].name # "TOTAL"}

\* the records reported for an address
RecordsOf(address) == {k \in DOMAIN changes : SameAddress(changes[k].address, address)}

\* C13: an address with a row in both snapshots, in whatever letter casing,
\* yields exactly one record, which carries the votes of both rows; a TOTAL
\* row never yields a record.
C13_MatchedByCanonicalAddress ==
    cmp_pc = "done" =>
        /\ \A i \in PoolLines(cur_csv) : \A j \in PoolLines(prev_csv) :
             SameAddress(cur_csv[i].address, prev_csv[j].address) =>
                 /\ Cardinality(RecordsOf(cur_csv[i].address)) = 1
                 /\ \A k \in RecordsOf(cur_csv[i].address) :
                      /\ changes[k].current_votes = AsFloat(cur_csv[i].votes)
                      /\ changes[k].previous_votes = AsFloat(prev_csv[j].votes)
        /\ \A k \in DOMAIN changes :
             /\ changes[k].name # "TOTAL"
             /\ changes[k].address # ""
        /\ Len(changes) <= Cardinality(PoolLines(cur_csv)) + Cardinality(PoolLines(prev_csv))

\* a comparison in which one address is written in lower case in the current
\* snapshot and checksummed in the previous one, with different votes, and
\* both files end with a TOTAL row
C13_Witness ==
    /\ cmp_pc = "done"
    /\ \E i \in PoolLines(cur_csv) : \E j \in PoolLines(prev_csv) :
         /\ cur_csv[i].address # prev_csv[j].address
         /\ SameAddress(cur_csv[i].address, prev_csv[j].address)
         /\ AsFloat(cur_csv[i].votes) = 2
         /\ AsFloat(prev_csv[j].votes) = -1
    /\ cur_csv[Len(cur_csv)] = TotalRow
    /\ prev_csv[Len(prev_csv)] = TotalRow

-----------------------------------------------------------------------------
(* C14: vote_pct *)

\* the sum of two quotients, undefined when one of them is
QuotAdd(x, y) ==
    IF x.defined /\ y.defined
    THEN Quot(x.num * y.den + y.num * x.den, x.den * y.den)
    ELSE Undefined

\* the sum of the vote_pct cells of a sequence of rows
RECURSIVE SumVotePct(_)
SumVotePct(rs) ==
    IF rs = <<>> THEN Whole(0) ELSE QuotAdd(Head(rs).vote_pct, SumVotePct(Tail(rs)))

-----------------------------------------------------------------------------
(* C15: the TOTAL row *)

\* write_csv has returned
Written == pc \in {"written", "done"}

\* the sum of the votes cells of a sequence of pool rows
RECURSIVE SumVotes(_)
SumVotes(rs) ==
    IF rs = <<>> THEN Whole(0) ELSE QuotAdd(Head(rs).votes, SumVotes(Tail(rs)))

\* the columns of the schema that hold a sum in the TOTAL row
SumColumns == {"votes_raw", "tfv", "tbv", "tvv"}

\* C15 as stated: when at least one record is written, write_csv emits exactly
\* one TOTAL row, after all pool rows, with empty identity columns and with
\* every numeric aggregate column, votes included, filled with the sum of the
\* column over the pool rows; when no record is written there is no TOTAL row.
C15_TotalRowSumsEveryColumn ==
    Written =>
        IF rows = <<>> THEN csv_out = <<>>
        ELSE LET last == csv_out[Len(csv_out)]
             IN /\ Len(csv_out) = Len(rows) + 1
                /\ \A i \in DOMAIN rows : csv_out[i].address = rows[i].address
                /\ last.name = "TOTAL"
                /\ last.address = ""
                /\ \A col \in SumColumns :
                     /\ col \in DOMAIN last
                     /\ last[col] = SumField(CsvPoolRows, col)
                /\ "votes" \in DOMAIN last
                /\ last.votes = SumVotes(CsvPoolRows)

-----------------------------------------------------------------------------
(* C16: snapshots are immutable *)

\* C16 as stated: once a timestamped snapshot is written no later step changes
\* it: a run never selects the path of an existing file, and no tool rewrites
\* a snapshot in place.
C16_SnapshotsImmutable ==
    [][/\ \A p \in Timestamped(fs) : p \in DOMAIN fs' /\ fs'[p] = fs[p]
       /\ pc' = "selected" => snapshot_path' \notin DOMAIN fs']_vars

-----------------------------------------------------------------------------
(* C17: the "latest" copy pools.csv *)

\* p is the newest timestamped snapshot of the directory
Newest(p, files) ==
    /\ p \in Timestamped(files)
    /\ \A q \in Timestamped(files) :
         q.ts < p.ts \/ (q.ts = p.ts /\ q.counter <= p.counter)

\* C17: when a run that wrote a timestamped snapshot ends, pools.csv exists and
\* holds the contents of that snapshot, which is the newest one; pools.csv is
\* overwritten, so no step makes it absent once it exists.
C17_LatestCopyInSync ==
    [][/\ (pc = "copying" /\ pc' = "idle") =>
            /\ LatestPath \in DOMAIN fs'
            /\ fs'[LatestPath].header
            /\ fs'[LatestPath] = fs'[snapshot_path']
            /\ Newest(snapshot_path', fs')
       /\ LatestPath \in DOMAIN fs => LatestPath \in DOMAIN fs']_vars

\* a second run has ended: pools.csv, which held the first snapshot, now holds
\* the different contents of the second
C17_Witness ==
    /\ pc = "idle"
    /\ Cardinality(Timestamped(fs)) = 2
    /\ LatestPath \in DOMAIN fs
    /\ fs[LatestPath] = fs[snapshot_path]
    /\ fs[LatestPath].lines # <<>>
    /\ \E q \in Timestamped(fs) : q # snapshot_path /\ fs[q] # fs[LatestPath]

-----------------------------------------------------------------------------
(* C18: the accesses to token_prices.json within one run *)

\* the accesses of one kind, in order
OpsOf(op) == SelectSeq(price_io, LAMBDA e : e.op = op)

\* C18 as stated: in a finished run the price file is read once, at the start
\* of the run, and written exactly once, after the last pool has been
\* valuated; it is not written between the pool listing and the weight and
\* reward fetches.
C18_ReadOnceWrittenAtEnd ==
    pc = "done" =>
        /\ Len(OpsOf("read")) <= 1
        /\ \A i \in DOMAIN OpsOf("read") : OpsOf("read")[i].at = "load"
        /\ Len(OpsOf("write")) = 1
        /\ \A i \in DOMAIN OpsOf("write") : OpsOf("write")[i].at \in {"write", "done"}

-----------------------------------------------------------------------------
(* C19, C20: update_price_map *)

\* the step is a call of update_price_map that wrote the whole file
UpdateCompleted ==
    /\ Len(price_io') > Len(price_io)
    /\ price_io'[Len(price_io')].op = "write"
    /\ price_file'.readable

\* the keys of the price file, as written
FileKeys(file) == IF file.exists /\ file.readable THEN ItemKeys(file.items) ELSE {}

\* the value the price file holds for a key
FileValue(file, key) ==
    file.items[CHOOSE i \in DOMAIN file.items : file.items[i][1] = key][2]

\* C19 as stated: after update_price_map(new_prices) the keys of the file are
\* exactly the lower-cased union of the default addresses, the keys the file
\* held before and the keys of new_prices; a key of new_prices that the old
\* file held too, in any letter casing, has the value of new_prices.
C19_FileIsUnionNewWins ==
    [][UpdateCompleted =>
        /\ FileKeys(price_file')
             = {Lower(k) : k \in ItemKeys(DEFAULT_PRICE_MAP)
                                   \cup FileKeys(price_file) \cup DOMAIN new_prices'}
        /\ \A k \in DOMAIN new_prices' :
             (\E o \in FileKeys(price_file) : Lower(o) = Lower(k)) =>
                 /\ Lower(k) \in FileKeys(price_file')
                 /\ FileValue(price_file', Lower(k)) = new_prices'[k]]_vars

\* C20 as stated: replacing the price file is atomic: also when the write
\* fails or is interrupted, a step of update_price_map leaves a complete map on
\* disk, the prior one or the new one, never an empty or partial file.
C20_AtomicReplace ==
    [][price_file.readable => price_file'.exists /\ price_file'.readable]_vars

-----------------------------------------------------------------------------
(* C21: a response item without "result" *)

\* C21: in _fetch_weights and _fetch_rewards_map an item without "result" adds
\* no key to the map and leaves the other items of the chunk alone: every item
\* of the chunk that has a result (one that decodes, for the rewards) is in
\* the map with its decoded value; the run raises on a transport failure only.
C21_NoResultDropsOnlyItsEntry ==
    /\ pc = "weights" =>
         \A i \in DOMAIN responses :
            IF responses[i].has_result
            THEN /\ pools[i].lp \in DOMAIN weight_map
                 /\ weight_map[pools[i].lp] = DecodeInt256(responses[i].word)
            ELSE pools[i].lp \notin DOMAIN weight_map
    /\ pc = "rewards" =>
         \A i \in DOMAIN responses :
            /\ ~responses[i].has_result => pools[i].lp \notin DOMAIN reward_map
            /\ (responses[i].has_result /\ responses[i].decodes) =>
                 /\ pools[i].lp \in DOMAIN reward_map
                 /\ reward_map[pools[i].lp] =
                      IF responses[i].empty THEN <<>>
                      ELSE <<ChainEpoch(PoolIndex(pools[i].lp))>>
    /\ pc = "raised" => failed # {}

\* a chunk of _fetch_rewards_map has answered with an item without "result"
\* next to an item that decodes, after _fetch_weights returned a map that
\* lacks one pool of a chunk and holds a non-zero weight for another
C21_Witness ==
    /\ pc = "rewards"
    /\ \E i, j \in DOMAIN responses :
         /\ ~responses[i].has_result
         /\ responses[j].has_result /\ responses[j].decodes /\ ~responses[j].empty
    /\ \E i, j \in DOMAIN pools :
         /\ (i - 1) \div WeightChunk = (j - 1) \div WeightChunk
         /\ pools[i].lp \notin DOMAIN weight_map
         /\ pools[j].lp \in DOMAIN weight_map
         /\ weight_map[pools[j].lp] # 0

-----------------------------------------------------------------------------
(* C22: pools without reward data *)

\* the pool is kept by iter_pools: a weight above 0 and no zero or junk token
Kept(pool) ==
    /\ pool.lp \in DOMAIN weight_map
    /\ weight_map[pool.lp] > 0
    /\ Lower(pool.token0) \notin {ZERO_ADDR} \cup JunkTokens
    /\ Lower(pool.token1) \notin {ZERO_ADDR} \cup JunkTokens

\* the reward map has no epoch for the pool: no entry, or an empty list
NoRewardData(pool) ==
    pool.lp \notin DOMAIN reward_map \/ reward_map[pool.lp] = <<>>

\* the rows yielded for a pool address
RowsOf(lp) == {k \in DOMAIN rows : rows[k].address = lp}

\* C22: a kept pool without reward data (response dropped, decode failed, or
\* empty epoch list) is emitted once, with tfv = tbv = tvv = 0,
\* rewards_epoch_ts = 0 and votes_per_tvv undefined; within a chunk of
\* _fetch_rewards_map the decode failure of one item leaves the entry of every
\* item that decodes in the map.
C22_NoRewardDataStillEmitted ==
    /\ pc \in {"write", "done"} =>
         \A i \in DOMAIN pools :
            (Kept(pools[i]) /\ NoRewardData(pools[i])) =>
               /\ Cardinality(RowsOf(pools[i].lp)) = 1
               /\ \A k \in RowsOf(pools[i].lp) :
                    /\ rows[k].tfv = 0
                    /\ rows[k].tbv = 0
                    /\ rows[k].tvv = 0
                    /\ rows[k].rewards_epoch_ts = 0
                    /\ rows[k].votes_per_tvv = Undefined
                    /\ rows[k].votes_raw = weight_map[pools[i].lp]
    /\ pc = "rewards" =>
         \A i, j \in DOMAIN responses :
            (/\ responses[i].has_result /\ ~responses[i].decodes
             /\ responses[j].has_result /\ responses[j].decodes) =>
               pools[j].lp \in DOMAIN reward_map

\* a finished run that emitted a kept pool with no entry in the reward map,
\* while another pool of its chunk has an entry, and a kept pool whose entry is
\* the empty epoch list
C22_Witness ==
    /\ pc = "done"
    /\ \E i, j \in DOMAIN pools :
         /\ (i - 1) \div RewardChunk = (j - 1) \div RewardChunk
         /\ Kept(pools[i])
         /\ pools[i].lp \notin DOMAIN reward_map
         /\ RowsOf(pools[i].lp) # {}
         /\ pools[j].lp \in DOMAIN reward_map
    /\ \E k \in DOMAIN pools :
         /\ Kept(pools[k])
         /\ pools[k].lp \in DOMAIN reward_map
         /\ reward_map[pools[k].lp] = <<>>
         /\ RowsOf(pools[k].lp) # {}

-----------------------------------------------------------------------------
(* C23: tokens without price *)

\* the USD value of the items that have a price in the map, in 1/UsdDen
\* dollars; an item without price adds nothing
RECURSIVE PricedSum(_)
PricedSum(items) ==
    IF items = <<>> THEN 0
    ELSE (IF Lower(Head(items).token) \in DOMAIN price_map
          THEN (Head(items).amount * price_map[Lower(Head(items).token)] * UsdDen)
                   \div Pow10(TokenDecimals(Head(items).token))
          ELSE 0)
         + PricedSum(Tail(items))

\* the fee and bribe items of the reward epoch of a kept pool
ItemsOf(pool) == reward_map[pool.lp][1].fees \o reward_map[pool.lp][1].bribes

\* the kept pools that have reward data
Valued == {i \in DOMAIN pools : Kept(pools[i]) /\ ~NoRewardData(pools[i])}

\* C23: once the pools are valuated, tfv and tbv of every kept pool are the
\* sums over the items that have a price, an item without price adding exactly
\* 0; the unpriced set holds exactly the lower-cased tokens of those items that
\* have no entry in the price map, never a token that has one; every kept pool
\* is valuated, whatever prices are missing.
C23_UnpricedIsZeroAndRecorded ==
    /\ pc \in {"write", "done"} =>
         /\ \A i \in Valued : \A k \in RowsOf(pools[i].lp) :
              /\ rows[k].tfv = PricedSum(reward_map[pools[i].lp][1].fees)
              /\ rows[k].tbv = PricedSum(reward_map[pools[i].lp][1].bribes)
         /\ unpriced =
              UNION {{Lower(ItemsOf(pools[i])[n].token) : n \in DOMAIN ItemsOf(pools[i])} :
                       i \in Valued} \ DOMAIN price_map
         /\ \A t \in unpriced : t \notin DOMAIN price_map /\ Lower(t) = t
         /\ \A i \in DOMAIN pools : Kept(pools[i]) => RowsOf(pools[i].lp) # {}

\* a finished run that valued a pool with a priced fee token and a bribe token
\* without price: tfv is above 0, tbv is 0 and the bribe token is recorded
C23_Witness ==
    /\ pc = "done"
    /\ \E i \in Valued : \E k \in RowsOf(pools[i].lp) :
         /\ rows[k].tfv > 0
         /\ rows[k].tbv = 0
         /\ \E n \in DOMAIN reward_map[pools[i].lp][1].bribes :
              /\ reward_map[pools[i].lp][1].bribes[n].amount > 0
              /\ Lower(reward_map[pools[i].lp][1].bribes[n].token) \in unpriced
         /\ \E n \in DOMAIN reward_map[pools[i].lp][1].fees :
              /\ Lower(reward_map[pools[i].lp][1].fees[n].token) \in DOMAIN price_map
              /\ Lower(reward_map[pools[i].lp][1].fees[n].token) \notin unpriced

-----------------------------------------------------------------------------
(* C24: the chunks of fetch_prices *)

\* what the price service answers with
Service == CHOOSE svc \in ServiceTables : TRUE

\* the tokens of the chunks requested so far
ChunkTokens == UNION {price_chunks[k].tokens : k \in DOMAIN price_chunks}

\* C24 as stated: when the run has resolved prices, every chunk of the missing
\* tokens has been requested, also the chunks after a failing one; a failing
\* chunk contributes no price; every price a successful chunk returned is in
\* the in-memory price map the valuation uses.
C24_FailedChunkIsolated ==
    price_chunks # <<>> =>
        /\ ChunkTokens = requested
        /\ \A k \in DOMAIN price_chunks :
             /\ Cardinality(price_chunks[k].tokens) <= PriceChunk
             /\ ~price_chunks[k].ok =>
                  \A t \in price_chunks[k].tokens : t \notin DOMAIN new_prices
             /\ price_chunks[k].ok =>
                  \A t \in price_chunks[k].tokens \cap DOMAIN Service :
                     /\ t \in DOMAIN price_map
                     /\ price_map[t] = Service[t]

-----------------------------------------------------------------------------
(* C27: the windows of the pool listing *)

\* the requests of one kind, in the order they were sent
CallsOf(fn) == SelectSeq(calls, LAMBDA c : c.fn = fn)

\* the listing loop of iter_pools has ended
Listed == pc \notin {"load", "count", "list"}

\* C27: the listing issues one count call, before any listing call; the
\* windows (offset, limit) of the listing calls start at 0, each starts where
\* the one before ends, has 1 <= limit <= batch_size and stays below the
\* count; when the loop has ended they cover exactly [0, count), with no call
\* for a count of 0; the loop ends after at most ceil(count / batch_size)
\* calls.
C27_WindowsCoverCount ==
    LET windows == CallsOf("all")
    IN /\ pc \notin {"load", "count"} =>
            /\ Len(CallsOf("count")) = 1
            /\ calls[1].fn = "count"
       /\ \A k \in DOMAIN windows :
            /\ windows[k].limit >= 1
            /\ windows[k].limit <= BatchSize
            /\ windows[k].offset =
                 IF k = 1 THEN 0 ELSE windows[k - 1].offset + windows[k - 1].limit
            /\ windows[k].offset + windows[k].limit <= total
       /\ Len(windows) * BatchSize < total + BatchSize
       /\ Listed =>
            IF total = 0 THEN windows = <<>>
            ELSE /\ windows # <<>>
                 /\ windows[Len(windows)].offset + windows[Len(windows)].limit = total

\* the listing has ended after a full window and a shorter last window
C27_Witness ==
    /\ Listed
    /\ Len(CallsOf("all")) >= 2
    /\ CallsOf("all")[1].limit = BatchSize
    /\ CallsOf("all")[Len(CallsOf("all"))].limit < BatchSize

-----------------------------------------------------------------------------
(* C28: _decode_int256 *)

\* x is the two's-complement reading of the word v: the one integer of
\* [-2^(w-1), 2^(w-1)) that is congruent to v modulo 2^w
SignedOf(v, x) ==
    /\ x >= -Pow2(WordBits - 1)
    /\ x < Pow2(WordBits - 1)
    /\ (x - v) % Pow2(WordBits) = 0
    /\ x = IF v < Pow2(WordBits - 1) THEN v ELSE v - Pow2(WordBits)

\* C28: _decode_int256 reads a return word v of [0, 2^w) as a two's-complement
\* signed integer: v below 2^(w-1) gives v, any other v gives v - 2^w, so the
\* result lies in [-2^(w-1), 2^(w-1)); every weight _fetch_weights stores is
\* this reading of the word the call returned.
C28_TwosComplement ==
    /\ \A v \in 0..(Pow2(WordBits) - 1) : SignedOf(v, DecodeInt256(v))
    /\ pc = "weights" =>
         \A i \in DOMAIN responses :
            responses[i].has_result =>
                SignedOf(responses[i].word, weight_map[pools[i].lp])
    /\ \A a \in DOMAIN weight_map :
         /\ weight_map[a] >= -Pow2(WordBits - 1)
         /\ weight_map[a] < Pow2(WordBits - 1)

\* a chunk of _fetch_weights has answered with the all-ones word, stored as
\* -1, next to a positive word, stored as it is
C28_Witness ==
    /\ pc = "weights"
    /\ \E i, j \in DOMAIN responses :
         /\ responses[i].has_result
         /\ responses[i].word = Pow2(WordBits) - 1
         /\ weight_map[pools[i].lp] = -1
         /\ responses[j].has_result
         /\ responses[j].word > 0
         /\ responses[j].word < Pow2(WordBits - 1)
         /\ weight_map[pools[j].lp] = responses[j].word

-----------------------------------------------------------------------------
(* C29: the chunks of _fetch_weights and _fetch_rewards_map *)

\* the call ids of a batch request
IdsOf(call) == call.offset..(call.offset + call.limit - 1)

\* the batches sent so far for one fetch are chunks of the address list: each
\* holds 1 .. size calls, the k-th one starts at id (k - 1) * size, the ids
\* (start + idx) lie within the list and no id is in two batches
Chunked(fn, size) ==
    LET batches == CallsOf(fn)
    IN /\ \A k \in DOMAIN batches :
            /\ batches[k].limit >= 1
            /\ batches[k].limit <= size
            /\ batches[k].offset = (k - 1) * size
            /\ batches[k].offset + batches[k].limit <= Len(pools)
       /\ \A k, j \in DOMAIN batches : k # j => IdsOf(batches[k]) \cap IdsOf(batches[j]) = {}

\* every list position (id = position - 1) is in exactly one batch
AllEncodedOnce(fn) ==
    \A i \in DOMAIN pools :
        Cardinality({k \in DOMAIN CallsOf(fn) : i - 1 \in IdsOf(CallsOf(fn)[k])}) = 1

\* _fetch_weights has returned
WeightsReturned == pc \in {"rewards", "valuate", "write", "done"} \/ CallsOf("rewards") # <<>>

\* _fetch_rewards_map has returned
RewardsReturned == pc \in {"valuate", "write", "done"}

\* C29: in _fetch_weights and _fetch_rewards_map the batches are sent one
\* after another in list order, none holds more than chunk_size calls, the
\* call ids start + idx are unique over all batches of the fetch and no batch
\* or call is sent twice; when the fetch has returned, every list position was
\* encoded in exactly one call of exactly one batch.
C29_ChunksPartitionTheList ==
    /\ Chunked("weights", WeightChunk)
    /\ Chunked("rewards", RewardChunk)
    /\ WeightsReturned => AllEncodedOnce("weights")
    /\ RewardsReturned => AllEncodedOnce("rewards")
    /\ CallsOf("rewards") # <<>> => WeightsReturned
    /\ \A k, j \in DOMAIN calls :
         (k < j /\ calls[k].fn = "rewards") => calls[j].fn = "rewards"

\* both fetches have returned after a full chunk and a shorter last chunk
C29_Witness ==
    /\ RewardsReturned
    /\ Len(CallsOf("weights")) >= 2
    /\ Len(CallsOf("rewards")) >= 2
    /\ CallsOf("weights")[1].limit = WeightChunk
    /\ CallsOf("weights")[Len(CallsOf("weights"))].limit < WeightChunk
    /\ CallsOf("rewards")[Len(CallsOf("rewards"))].limit < RewardChunk

-----------------------------------------------------------------------------
(* C25: what find_latest_csvs returns *)

\* the place of a file of the directory in the order of the st_mtime
Stamp(path) == CHOOSE i \in DOMAIN mtime : mtime[i] = path

\* C25: find_latest_csvs(n) returns at most n paths, no two with the same
\* resolved path, the paths ordered by modification time newest first, and
\* pools.csv among them only when fewer than n timestamped snapshots exist
C25_LatestCsvsNewestFirst ==
    lookup.fn = "find_latest_csvs" =>
        LET n == lookup.args[1]
            unique == lookup.out
        IN /\ Len(unique) <= n
           /\ \A i, j \in DOMAIN unique :
                i # j => Resolve(unique[i]) # Resolve(unique[j])
           /\ \A i, j \in DOMAIN unique :
                i < j => Stamp(unique[i]) > Stamp(unique[j])
           /\ (\E i \in DOMAIN unique : unique[i] = LatestPath)
                => Cardinality(Timestamped(fs)) < n

-----------------------------------------------------------------------------
(* C26: the exit code of the comparator run as a tool *)

\* an option of the comparator that names no file of the directory
NotThere(path) == path # NoPath /\ path \notin DOMAIN fs

\* C26: main() returns 1 and compares nothing when an option is left to
\* discovery and the directory holds fewer than two snapshot files, or when a
\* path given with --current or --previous does not exist; in every other case
\* it compares two files and returns 0
C26_ExitCode ==
    lookup.fn = "main" =>
        LET current == lookup.args[1]
            previous == lookup.args[2]
            too_few == /\ current = NoPath \/ previous = NoPath
                       /\ Cardinality(DOMAIN fs) < 2
        IN IF too_few \/ NotThere(current) \/ NotThere(previous)
           THEN lookup.out.code = 1 /\ lookup.out.compared = <<>>
           ELSE /\ lookup.out.code = 0
                /\ Len(lookup.out.compared) = 2
                /\ \A i \in 1..2 : lookup.out.compared[i] \in DOMAIN fs

\* C26 witness: main() has returned 1 for a directory with a single snapshot,
\* or for an option naming no file in a directory with two or more
C26_Witness ==
    /\ lookup.fn = "main"
    /\ lookup.out.code = 1
    /\ \/ lookup.args = <<NoPath, NoPath>> /\ Cardinality(DOMAIN fs) = 1
       \/ /\ Cardinality(DOMAIN fs) >= 2
          /\ lookup.args[1] = NoPath
          /\ lookup.args[2] = MissingPath

-----------------------------------------------------------------------------
(* C30: the snapshot _previous_snapshot returns *)

\* the places of a path in a history
PlacesOf(history, path) ==
    {i \in DOMAIN history : Resolve(history[i]) = Resolve(path)}

\* C30: _previous_snapshot(current) returns the entry that follows current in
\* the discovered history: a path it returns is another file than current and
\* stands after current in the history (newest first), and it returns nothing
\* when no entry of the history stands after current
C30_PreviousIsOlder ==
    lookup.fn = "_previous_snapshot" =>
        LET current == lookup.args[1]
            previous == lookup.out
            history == FindLatestCsvs(fs, mtime, HistoryLimit)
            older == {j \in DOMAIN history :
                        \E i \in PlacesOf(history, current) : i < j}
        IN IF older = {}
           THEN previous = NoPath
           ELSE /\ Resolve(previous) # Resolve(current)
                /\ PlacesOf(history, previous) \cap older # {}
                /\ \E i \in PlacesOf(history, current) : previous = history[i + 1]

====
